---------------------------- MODULE Spec2Model ----------------------------
(***************************************************************************)
(* FreeRTOS port layer for the 8-bit AVR ATmega family                     *)
(* (portable/GCC/ATmegaxxxx/port.c), modelled at the level of the AVR      *)
(* instructions the port is written in: the register file, the status      *)
(* register, the stack pointer, RAM holding the task stacks and the task   *)
(* control blocks, the tick source registers and the program counter.      *)
(***************************************************************************)
EXTENDS Integers, Sequences, FiniteSets, TLC

(***************************************************************************)
(* Bounds of the model.                                                    *)
(***************************************************************************)
\* number of events in one run: tick interrupts taken, calls of vPortYield
\* and instructions of task code (not counting the pop that undoes a push and
\* the sei that undoes a cli)
MaxEvents == 3
\* number of register-file patterns task code may load
NumPatterns == 1
\* highest tick rate requested of Timer0, in Hz
MaxTickRate == 2000
\* highest watchdog time-out selection (WDTO_8S)
MaxWDTO == 9

(***************************************************************************)
(* Bytes and 16-bit words.                                                 *)
(***************************************************************************)
Lo(w) == w % 256

Hi(w) == (w \div 256) % 256

Word(lo, hi) == hi * 256 + lo

\* bit n of byte b
Bit(b, n) == (b \div (2 ^ n)) % 2

SetBit(b, n) == IF Bit(b, n) = 1 THEN b ELSE b + 2 ^ n

ClrBit(b, n) == IF Bit(b, n) = 1 THEN b - 2 ^ n ELSE b

\* b & ~mask, for a mask given as a set of bit numbers
RECURSIVE ClrBits(_, _)
ClrBits(b, bits) ==
    IF bits = {} THEN b
    ELSE LET n == CHOOSE x \in bits : TRUE
         IN  ClrBits(ClrBit(b, n), bits \ {n})

(***************************************************************************)
(* Program constants.                                                      *)
(***************************************************************************)
\* #define portFLAGS_INT_ENABLED ( (StackType_t) 0x80 )
portFLAGS_INT_ENABLED == 128

\* bit number of the global interrupt enable flag I in SREG
SREG_I == 7

\* #define portCLOCK_PRESCALER ( (uint32_t) 1024 )
portCLOCK_PRESCALER == 1024


\* bit numbers of SREG flags written by "clr" (eor): Z set; N, V, S cleared
SREG_Z == 1

SREG_N == 2

SREG_V == 3

SREG_S == 4

\* TIMSK0 bits: TOIE0, OCIE0A, OCIE0B
TOIE0 == 0

OCIE0A == 1

OCIE0B == 2

\* TCCR0A bit WGM01 (clear timer on compare match)
WGM01 == 1

\* TCCR0B bits CS00, CS02 (clock select, prescaler 1024)
CS00 == 0

CS02 == 2

\* WDTCSR bits: WDE (reset enable), WDP3, WDIE (interrupt enable), WDIF
WDE == 3

WDP3 == 5

WDIE == 6

WDIF == 7

(***************************************************************************)
(* The AVR machine: mcu = [reg, sreg, sp, rampz, eind, mem].               *)
(* reg is the register file r0..r31 (r0 = __tmp_reg__, r1 = __zero_reg__), *)
(* rampz and eind the I/O registers 0x3B and 0x3C, mem the RAM.            *)
(***************************************************************************)
Regs == 0 .. 31

\* load from RAM; an unmapped address reads as 0
Rd(m, a) == IF a \in DOMAIN m.mem THEN m.mem[a] ELSE 0

\* store to RAM; a store to an unmapped address is lost
Wr(m, a, b) == IF a \in DOMAIN m.mem THEN [m EXCEPT !.mem[a] = b] ELSE m

\* push: store at SP, then decrement SP
Push(m, b) == [Wr(m, m.sp, b) EXCEPT !.sp = m.sp - 1]

\* pop rN: increment SP, then load
PopReg(m, i) == [m EXCEPT !.sp = m.sp + 1, !.reg[i] = Rd(m, m.sp + 1)]

\* push ri, push r(i+1), ..., push rlast: ri lands at SP, r(i+1) below it, ...
PushRegs(m, i, last) ==
    [m EXCEPT !.mem = [a \in DOMAIN m.mem |->
                          IF a <= m.sp /\ a >= m.sp - (last - i)
                          THEN m.reg[i + (m.sp - a)]
                          ELSE m.mem[a]],
              !.sp = m.sp - (last - i + 1)]

\* pop ri, pop r(i-1), ..., pop rlast: ri comes from SP + 1, r(i-1) from above it
PopRegs(m, i, last) ==
    [m EXCEPT !.reg = [r \in Regs |->
                          IF r <= i /\ r >= last
                          THEN Rd(m, m.sp + 1 + (i - r))
                          ELSE m.reg[r]],
              !.sp = m.sp + (i - last + 1)]

\* clr rN (eor rN,rN): the register reads zero, Z is set, N, V and S are cleared
Clr(m, i) ==
    [m EXCEPT !.reg[i] = 0,
              !.sreg = SetBit(ClrBits(m.sreg, {SREG_N, SREG_V, SREG_S}), SREG_Z)]

\* the global interrupt enable flag is cleared: by cli, and by the hardware when
\* an interrupt is taken
Cli(m) == [m EXCEPT !.sreg = ClrBit(m.sreg, SREG_I)]

\* the global interrupt enable flag
IntEnabled(m) == Bit(m.sreg, SREG_I) = 1

\* number of bytes a return address takes on the stack
PCBytes(pc3) == IF pc3 THEN 3 ELSE 2

\* call / interrupt entry: the return address goes on the stack, low byte first
PushPC(m, addr, pc3) ==
    LET a == Push(m, Lo(addr))
        b == Push(a, Hi(addr))
    IN  IF pc3 THEN Push(b, (addr \div 65536) % 256) ELSE b

\* ret / reti: the address the return pops
RetAddr(m, pc3) ==
    IF pc3
    THEN Rd(m, m.sp + 1) * 65536 + Rd(m, m.sp + 2) * 256 + Rd(m, m.sp + 3)
    ELSE Rd(m, m.sp + 1) * 256 + Rd(m, m.sp + 2)

\* ret / reti: the stack pointer after the return
RetPop(m, pc3) == [m EXCEPT !.sp = m.sp + PCBytes(pc3)]

(***************************************************************************)
(* portSAVE_CONTEXT, split where an interrupt can still be taken.          *)
(***************************************************************************)
\* as SAVE_push_tmp, with the register pushed twice
SAVE_push_tmp_twice(m) == Push(Push(m, m.reg[0]), m.reg[0])

\* push __tmp_reg__
SAVE_push_tmp(m) == Push(m, m.reg[0])

\* as SAVE_in_sreg, with the status register read after the cli
SAVE_in_sreg_afterCli(m) == [m EXCEPT !.reg[0] = ClrBit(m.sreg, SREG_I)]

\* in __tmp_reg__, __SREG__
SAVE_in_sreg(m) == [m EXCEPT !.reg[0] = m.sreg]

\* as SAVE_cli, with the cli left out of the macro
SAVE_cli_absent(m) == m

\* cli
SAVE_cli(m) == Cli(m)

\* in __tmp_reg__, 0x3B ; push ; in __tmp_reg__, 0x3C ; push   (3-byte PC only)
SAVE_extended(m, pc3) ==
    IF pc3
    THEN LET a == [m EXCEPT !.reg[0] = m.rampz]
             b == Push(a, a.reg[0])
             c == [b EXCEPT !.reg[0] = b.eind]
         IN  Push(c, c.reg[0])
    ELSE m

\* as SAVE_store_sp, with the control block at address 288 (that of the first
\* task) in place of the one pxCurrentTCB designates
SAVE_store_sp_fixedTCB(m, tcb) ==
    LET a == [m EXCEPT !.reg[26] = Lo(288), !.reg[27] = Hi(288)]
        X == Word(a.reg[26], a.reg[27])
        b == [a EXCEPT !.reg[0] = Lo(a.sp)]
        c == Wr(b, X, b.reg[0])
        d == [c EXCEPT !.reg[0] = Hi(c.sp)]
        e == Wr(d, X + 1, d.reg[0])
    IN  [e EXCEPT !.reg[26] = Lo(X + 2), !.reg[27] = Hi(X + 2)]

\* lds r26/r27, pxCurrentTCB ; in tmp, SP_L ; st x+ ; in tmp, SP_H ; st x+
SAVE_store_sp(m, tcb) ==
    LET a == [m EXCEPT !.reg[26] = Lo(tcb), !.reg[27] = Hi(tcb)]
        X == Word(a.reg[26], a.reg[27])
        b == [a EXCEPT !.reg[0] = Lo(a.sp)]
        c == Wr(b, X, b.reg[0])
        d == [c EXCEPT !.reg[0] = Hi(c.sp)]
        e == Wr(d, X + 1, d.reg[0])
    IN  [e EXCEPT !.reg[26] = Lo(X + 2), !.reg[27] = Hi(X + 2)]

\* as SAVE_body, with "clr __zero_reg__" before "push __zero_reg__"
SAVE_body_clrBeforePush(m, tcb, pc3) ==
    LET a == Push(m, m.reg[0])
        b == SAVE_extended(a, pc3)
        c == Clr(b, 1)
        d == Push(c, c.reg[1])
        e == PushRegs(d, 2, 31)
    IN  SAVE_store_sp(e, tcb)

\* as SAVE_body, with r1 pushed before the status byte
SAVE_body_r1BeforeStatus(m, tcb, pc3) ==
    LET a == Push(m, m.reg[1])
        b == Push(a, a.reg[0])
        c == SAVE_extended(b, pc3)
        d == Clr(c, 1)
        e == PushRegs(d, 2, 31)
    IN  SAVE_store_sp(e, tcb)

\* as SAVE_body, without "clr __zero_reg__"
SAVE_body_noClr(m, tcb, pc3) ==
    LET a == Push(m, m.reg[0])
        b == SAVE_extended(a, pc3)
        c == Push(b, b.reg[1])
        e == PushRegs(c, 2, 31)
    IN  SAVE_store_sp(e, tcb)

\* push tmp (the status byte) ... st x+: the part of the save after cli
SAVE_body(m, tcb, pc3) ==
    LET a == Push(m, m.reg[0])
        b == SAVE_extended(a, pc3)
        c == Push(b, b.reg[1])
        d == Clr(c, 1)
        e == PushRegs(d, 2, 31)
    IN  SAVE_store_sp(e, tcb)

\* the whole macro
portSAVE_CONTEXT(m, tcb, pc3) ==
    SAVE_body(SAVE_cli(SAVE_in_sreg(SAVE_push_tmp(m))), tcb, pc3)

(***************************************************************************)
(* portRESTORE_CONTEXT.                                                    *)
(***************************************************************************)
\* as RESTORE_load_sp, without the write of SP_H
RESTORE_load_sp_lowOnly(m, tcb) ==
    LET a == [m EXCEPT !.reg[26] = Lo(tcb), !.reg[27] = Hi(tcb)]
        X == Word(a.reg[26], a.reg[27])
        b == [a EXCEPT !.reg[28] = Rd(a, X)]
        c == [b EXCEPT !.sp = Word(b.reg[28], Hi(b.sp))]
        d == [c EXCEPT !.reg[29] = Rd(c, X + 1)]
    IN  [d EXCEPT !.reg[26] = Lo(X + 2), !.reg[27] = Hi(X + 2)]

\* lds r26/r27, pxCurrentTCB ; ld r28, x+ ; out SP_L ; ld r29, x+ ; out SP_H
RESTORE_load_sp(m, tcb) ==
    LET a == [m EXCEPT !.reg[26] = Lo(tcb), !.reg[27] = Hi(tcb)]
        X == Word(a.reg[26], a.reg[27])
        b == [a EXCEPT !.reg[28] = Rd(a, X)]
        c == [b EXCEPT !.sp = Word(b.reg[28], Hi(b.sp))]
        d == [c EXCEPT !.reg[29] = Rd(c, X + 1)]
        e == [d EXCEPT !.sp = Word(Lo(d.sp), d.reg[29])]
    IN  [e EXCEPT !.reg[26] = Lo(X + 2), !.reg[27] = Hi(X + 2)]

\* as RESTORE_extended, with the two I/O addresses exchanged
RESTORE_extended_swapped(m, pc3) ==
    IF pc3
    THEN LET a == PopReg(m, 0)
             b == [a EXCEPT !.rampz = a.reg[0]]
             c == PopReg(b, 0)
         IN  [c EXCEPT !.eind = c.reg[0]]
    ELSE m

\* pop tmp ; out 0x3C ; pop tmp ; out 0x3B   (3-byte PC only)
RESTORE_extended(m, pc3) ==
    IF pc3
    THEN LET a == PopReg(m, 0)
             b == [a EXCEPT !.eind = a.reg[0]]
             c == PopReg(b, 0)
         IN  [c EXCEPT !.rampz = c.reg[0]]
    ELSE m

\* lds ... pop __tmp_reg__ (the status byte): the restore up to the SREG write
RESTORE_body(m, tcb, pc3) ==
    LET a == RESTORE_load_sp(m, tcb)
        b == PopRegs(a, 31, 2)
        c == PopReg(b, 1)
        d == RESTORE_extended(c, pc3)
    IN  PopReg(d, 0)

\* as RESTORE_out_sreg, with the interrupt-enable bit always set
RESTORE_out_sreg_setsI(m) == [m EXCEPT !.sreg = SetBit(m.reg[0], SREG_I)]

\* out __SREG__, __tmp_reg__
RESTORE_out_sreg(m) == [m EXCEPT !.sreg = m.reg[0]]

\* as RESTORE_pop_tmp, with the byte popped not reaching r0
RESTORE_pop_tmp_lost(m) == [PopReg(m, 0) EXCEPT !.reg[0] = m.reg[0]]

\* pop __tmp_reg__
RESTORE_pop_tmp(m) == PopReg(m, 0)

\* the whole macro
portRESTORE_CONTEXT(m, tcb, pc3) ==
    RESTORE_pop_tmp(RESTORE_out_sreg(RESTORE_body(m, tcb, pc3)))

(***************************************************************************)
(* pxPortInitialiseStack.                                                  *)
(***************************************************************************)
\* as InitialFrame, with the two bytes of the parameter written in the other order
InitialFrame_paramSwapped(pxCode, pvParameters, pc3) ==
    LET usCode  == pxCode % 65536
        usParam == pvParameters % 65536
    IN  << 17, 34, 51 >>
        \o << Lo(usCode), Hi(usCode) >>
        \o (IF pc3 THEN << 0 >> ELSE << >>)
        \o << 0, portFLAGS_INT_ENABLED >>
        \o (IF pc3 THEN << 0, 0 >> ELSE << >>)
        \o << 0, 2, 3, 4, 5, 6, 7, 8, 9 >>
        \o << 16, 17, 18, 19, 20, 21, 22, 23, 24, 25 >>
        \o << 32, 33, 34, 35 >>
        \o << Hi(usParam), Lo(usParam) >>
        \o << 38, 39, 40, 41, 48, 49 >>

\* as InitialFrame, with one more byte written below the frame
InitialFrame_oneMore(pxCode, pvParameters, pc3) ==
    LET usCode  == pxCode % 65536
        usParam == pvParameters % 65536
    IN  << 17, 34, 51 >>
        \o << Lo(usCode), Hi(usCode) >>
        \o (IF pc3 THEN << 0 >> ELSE << >>)
        \o << 0, portFLAGS_INT_ENABLED >>
        \o (IF pc3 THEN << 0, 0 >> ELSE << >>)
        \o << 0, 2, 3, 4, 5, 6, 7, 8, 9 >>
        \o << 16, 17, 18, 19, 20, 21, 22, 23, 24, 25 >>
        \o << 32, 33, 34, 35 >>
        \o << Lo(usParam), Hi(usParam) >>
        \o << 38, 39, 40, 41, 48, 49 >>
        \o << 50 >>

\* the bytes the function writes, in the order it writes them (downwards)
InitialFrame(pxCode, pvParameters, pc3) ==
    LET usCode  == pxCode % 65536
        usParam == pvParameters % 65536
    IN  << 17, 34, 51 >>
        \o << Lo(usCode), Hi(usCode) >>
        \o (IF pc3 THEN << 0 >> ELSE << >>)
        \o << 0, portFLAGS_INT_ENABLED >>
        \o (IF pc3 THEN << 0, 0 >> ELSE << >>)
        \o << 0, 2, 3, 4, 5, 6, 7, 8, 9 >>
        \o << 16, 17, 18, 19, 20, 21, 22, 23, 24, 25 >>
        \o << 32, 33, 34, 35 >>
        \o << Lo(usParam), Hi(usParam) >>
        \o << 38, 39, 40, 41, 48, 49 >>

\* *pxTopOfStack = b; pxTopOfStack--;  for each byte of the frame in turn
WriteDown(m, pxTopOfStack, bytes) ==
    [m EXCEPT !.mem = [a \in DOMAIN m.mem |->
                          IF a <= pxTopOfStack /\ a > pxTopOfStack - Len(bytes)
                          THEN bytes[pxTopOfStack - a + 1]
                          ELSE m.mem[a]]]

\* the value returned: the stack top moved down by one per byte written
pxPortInitialiseStack(pxTopOfStack, pxCode, pvParameters, pc3) ==
    pxTopOfStack - Len(InitialFrame(pxCode, pvParameters, pc3))


(***************************************************************************)
(* prvSetupTimerInterrupt and the tick source.                             *)
(* io = [OCR0A, TCCR0A, TCCR0B, TIMSK0, WDTCSR].                           *)
(***************************************************************************)
\* TickType_t is 16 bits wide on this port
TickType(x) == x % 65536

\* ulCompareMatch = configCPU_CLOCK_HZ / configTICK_RATE_HZ; ulCompareMatch /= 1024
ulCompareMatch(c) == (c.configCPU_CLOCK_HZ \div c.configTICK_RATE_HZ) \div portCLOCK_PRESCALER

\* as Timer0TickRate, dividing by the prescaler times one more than the quotient
Timer0TickRate_nextQuotient(c) ==
    TickType(c.configCPU_CLOCK_HZ \div (portCLOCK_PRESCALER * (ulCompareMatch(c) + 1)))

\* (TickType_t) ( configCPU_CLOCK_HZ / ( portCLOCK_PRESCALER * ulCompareMatch ) )
Timer0TickRate(c) ==
    TickType(c.configCPU_CLOCK_HZ \div (portCLOCK_PRESCALER * ulCompareMatch(c)))

\* as Timer0Compare, without the adjustment by one
Timer0Compare_notAdjusted(c) == ulCompareMatch(c) % 256

\* ulCompareMatch -= 1; ucLowByte = ulCompareMatch & 0xff
\* (the low byte of the 32-bit difference: 0 - 1 wraps and leaves 0xff)
Timer0Compare(c) == (ulCompareMatch(c) - 1) % 256

\* as wdt_interrupt_enable, with the reset enable bit set as well
wdt_interrupt_enable_withReset(value) ==
    (IF Bit(value, 3) = 1 THEN 2 ^ WDP3 ELSE 0) + 2 ^ WDIE + 2 ^ WDE + (value % 8)

\* the final value wdt_interrupt_enable(value) leaves in the watchdog control
\* register: WDIE and the prescale bits; WDIF is cleared by writing it as one
wdt_interrupt_enable(value) ==
    (IF Bit(value, 3) = 1 THEN 2 ^ WDP3 ELSE 0) + 2 ^ WDIE + (value % 8)

\* as prvSetupTimerInterrupt, with the interrupt enable bit left alone
prvSetupTimerInterrupt_notEnabled(i, c) ==
    IF c.wdt
    THEN [i EXCEPT !.WDTCSR = c.portUSE_WDTO % 8]
    ELSE [i EXCEPT !.OCR0A  = Timer0Compare(c),
                   !.TCCR0A = 2 ^ WGM01,
                   !.TCCR0B = 2 ^ CS02 + 2 ^ CS00]

\* the tick source registers after prvSetupTimerInterrupt
prvSetupTimerInterrupt(i, c) ==
    IF c.wdt
    THEN [i EXCEPT !.WDTCSR = wdt_interrupt_enable(c.portUSE_WDTO)]
    ELSE [i EXCEPT !.OCR0A  = Timer0Compare(c),
                   !.TCCR0A = 2 ^ WGM01,
                   !.TCCR0B = 2 ^ CS02 + 2 ^ CS00,
                   !.TIMSK0 = SetBit(i.TIMSK0, OCIE0A)]

\* portTickRateHz after prvSetupTimerInterrupt
SetupTickRate(c) ==
    IF c.wdt THEN TickType(c.configTICK_RATE_HZ) ELSE Timer0TickRate(c)

\* what a 32-bit division by zero may leave in portTickRateHz: the behaviour
\* is undefined; the library routine of the AVR build yields all ones
UndefinedTickRates == {0, 65535}

\* the values prvSetupTimerInterrupt may leave in portTickRateHz: with Timer0
\* and a zero quotient the divisor portCLOCK_PRESCALER * ulCompareMatch is zero
SetupTickRates(c) ==
    IF ~ c.wdt /\ ulCompareMatch(c) = 0
    THEN UndefinedTickRates
    ELSE {SetupTickRate(c)}

\* as vPortEndSchedulerIO, clearing the overflow and compare-B enables only
vPortEndSchedulerIO_wrongBits(i, c) ==
    [i EXCEPT !.TIMSK0 = ClrBits(i.TIMSK0, {OCIE0B, TOIE0})]

\* the tick source registers after vPortEndScheduler
vPortEndSchedulerIO(i, c) ==
    IF c.wdt
    THEN [i EXCEPT !.WDTCSR = 0]
    ELSE [i EXCEPT !.TIMSK0 = ClrBits(i.TIMSK0, {OCIE0B, OCIE0A, TOIE0})]

\* the tick source is configured to raise its interrupt
TickEnabled(i, c) ==
    IF c.wdt
    THEN Bit(i.WDTCSR, WDIE) = 1
    ELSE Bit(i.TIMSK0, OCIE0A) = 1 /\ i.TCCR0B % 8 # 0

(***************************************************************************)
(* Memory map and code addresses.                                          *)
(***************************************************************************)
Tasks == {0, 1}

\* address of the control block of task t; its first field is pxTopOfStack
TCBAddr(t) == 288 + 32 * t

TaskOf(tcb) == CHOOSE t \in Tasks : TCBAddr(t) = tcb

\* the stack top handed to pxPortInitialiseStack for task t
StackTop(t) == 784 + 256 * t

\* bytes of stack a task may need: the initial markers, its own pushes, a call
\* of vPortYield, the scratch push, an interrupt, the call from the handler,
\* the context and a call made by the handler
StackSize == 3 + MaxEvents + 3 + 1 + 3 + 3 + 35 + 3

StackOf(t) == (StackTop(t) - StackSize + 1) .. StackTop(t)

\* the stack main() runs on before the scheduler is started
MainStackTop == 2303

MainStack == (MainStackTop - 3) .. MainStackTop

RAM == UNION {StackOf(t) : t \in Tasks}
         \cup UNION {{TCBAddr(t), TCBAddr(t) + 1} : t \in Tasks}
         \cup MainStack

\* code addresses: the place in the kernel that calls xPortStartScheduler
ADDR_main == 96

\* the reset vector
ADDR_reset == 0

ADDR_xPortStartScheduler == 12288

ADDR_vPortYield == 12320

ADDR_vPortYieldFromTick == 12352

ADDR_ISR == 12384

ADDR_vPortEndScheduler == 12416

\* the "return pdTRUE" that follows the ret of xPortStartScheduler
ADDR_return_pdTRUE == ADDR_xPortStartScheduler + 5

\* the reti of the tick handler
ADDR_reti == ADDR_ISR + 1

(***************************************************************************)
(* Inputs: build configurations, task entry points and parameters, and     *)
(* the register contents task code produces.                               *)
(***************************************************************************)
\* the builds checked: every pair of choices among preemptive or cooperative,
\* 2-byte or 3-byte program counter, Timer0 or watchdog tick appears in one
Configs ==
    { [preempt |-> TRUE, pc3 |-> FALSE, wdt |-> FALSE,
       configCPU_CLOCK_HZ |-> 16000000, configTICK_RATE_HZ |-> 1000,
       portUSE_WDTO |-> 0],
      [preempt |-> TRUE, pc3 |-> TRUE, wdt |-> TRUE,
       configCPU_CLOCK_HZ |-> 16000000, configTICK_RATE_HZ |-> 62,
       portUSE_WDTO |-> 0],
      [preempt |-> FALSE, pc3 |-> FALSE, wdt |-> TRUE,
       configCPU_CLOCK_HZ |-> 16000000, configTICK_RATE_HZ |-> 62,
       portUSE_WDTO |-> 0],
      [preempt |-> FALSE, pc3 |-> TRUE, wdt |-> FALSE,
       configCPU_CLOCK_HZ |-> 16000000, configTICK_RATE_HZ |-> 1000,
       portUSE_WDTO |-> 0] }

EntryPoints == {336, 4768}

Params == {0, 43981}

\* the tasks the application creates
TaskInputs ==
    { [t \in Tasks |-> [pxCode |-> IF t = 0 THEN 336 ELSE 4768,
                        pvParameters |-> IF t = 0 THEN 43981 ELSE 0,
                        created |-> FALSE]] }

\* register file number k that task code loads: every register differs
Pattern(k) == [i \in Regs |-> (64 * k + 3 * i + 7) % 256]

\* arithmetic flags (bits 0..5 of SREG) task code leaves with pattern k
Flags(k) == (5 * k) % 64

\* next instruction of the task whose code starts at e
NextTaskPC(e, at) == IF at = e THEN e + 1 ELSE e

\* registers a C function may change: r0, r18..r27, r30, r31
CallUsed == {0} \cup (18 .. 27) \cup {30, 31}

\* a call of a kernel C function from a naked port function: the return
\* address is pushed and popped again, call-used registers and the arithmetic
\* flags come back changed, r24 carries the result, I is left alone
KernelCall(m, retaddr, result, pc3) ==
    LET a == RetPop(PushPC(m, retaddr, pc3), pc3)
    IN  [a EXCEPT !.reg = [i \in Regs |->
                              IF i = 24 THEN result
                              ELSE IF i \in CallUsed THEN 165
                              ELSE a.reg[i]],
                  !.sreg = Bit(a.sreg, SREG_I) * 2 ^ SREG_I + 2 ^ SREG_Z]


(***************************************************************************)
(* State.                                                                  *)
(***************************************************************************)
VARIABLES
    cfg,                  \* the build configuration
    task,                 \* per task: entry point, parameter, created or not
    mcu,                  \* registers, status register, stack pointer, RAM
    pc,                   \* program counter
    idelay,               \* the instruction after one that sets I runs first
    io,                   \* tick source registers
    pxCurrentTCB,         \* the kernel's current task control block pointer
    portTickRateHz,
    ticksRemainingInSec,
    xTickCount,           \* the kernel's tick count
    nTicks,               \* tick interrupts taken so far
    nYields,              \* calls of vPortYield so far
    nOps,                 \* task instructions executed so far
    running,              \* the task whose context the processor holds
    snaps,                \* per task: what it looked like at each suspension
    resumed,              \* the suspension the last step resumed from, if any
    hlog,                 \* port operations of the handler now executing
    inflight,             \* saves begun whose restore has not finished
    window,               \* saves past cli whose restore has not written SREG
    ended                 \* vPortEndScheduler has returned

vars == << cfg, task, mcu, pc, idelay, io, pxCurrentTCB, portTickRateHz,
           ticksRemainingInSec, xTickCount, nTicks, nYields, nOps, running,
           snaps, resumed,
           hlog, inflight, window, ended >>

NoTask == 99

\* events so far
Events == nTicks + nYields + nOps

NoSnap == [kind |-> "none"]

\* the live part of task t's stack: the bytes above the stack pointer
StackSeq(m, t) == [i \in 1 .. (StackTop(t) - m.sp) |-> Rd(m, m.sp + i)]

\* what the running task looks like when it is suspended at address at
Snap(kind, at, m, t) ==
    [kind |-> kind, task |-> t, pc |-> at, reg |-> m.reg, sreg |-> m.sreg,
     rampz |-> m.rampz, eind |-> m.eind, sp |-> m.sp, stack |-> StackSeq(m, t),
     first |-> (resumed.kind = "fresh")]

PushSnap(t, sn) == [snaps EXCEPT ![t] = << sn >> \o @]

\* the task now running reaches the address a ret or reti popped: unless that
\* is the reti of the tick handler, the task is resumed
Resume(target) ==
    IF target = ADDR_reti \/ running \notin Tasks
    THEN resumed' = NoSnap /\ UNCHANGED snaps
    ELSE IF snaps[running] = << >>
    THEN resumed' = [kind |-> "unknown"] /\ UNCHANGED snaps
    ELSE /\ resumed' = Head(snaps[running])
         /\ snaps' = [snaps EXCEPT ![running] = Tail(@)]

Init ==
    /\ cfg \in Configs
    /\ task \in TaskInputs
    /\ mcu = [reg |-> [i \in Regs |-> 0], sreg |-> 0, sp |-> MainStackTop,
              rampz |-> 0, eind |-> 0, mem |-> [a \in RAM |-> 0]]
    /\ pc = ADDR_main
    /\ idelay = FALSE
    /\ io = [OCR0A |-> 0, TCCR0A |-> 0, TCCR0B |-> 0, TIMSK0 |-> 0, WDTCSR |-> 0]
    /\ pxCurrentTCB = 0
    /\ portTickRateHz = 0
    /\ ticksRemainingInSec = 0
    /\ xTickCount = 0
    /\ nTicks = 0
    /\ nYields = 0
    /\ nOps = 0
    /\ running = NoTask
    /\ snaps = [t \in Tasks |-> << >>]
    /\ resumed = NoSnap
    /\ hlog = << >>
    /\ inflight = 0
    /\ window = 0
    /\ ended = FALSE

(***************************************************************************)
(* Before the scheduler runs: task creation and scheduler start.           *)
(***************************************************************************)
\* the machine after the kernel has created task t with inputs tk:
\* pxPortInitialiseStack builds its first frame and the kernel stores the
\* returned address in the control block
CreateTask(m, t, tk, pc3) ==
    LET frame == InitialFrame(tk.pxCode, tk.pvParameters, pc3)
        top   == pxPortInitialiseStack(StackTop(t), tk.pxCode,
                                       tk.pvParameters, pc3)
        a     == WriteDown(m, StackTop(t), frame)
    IN  Wr(Wr(a, TCBAddr(t), Lo(top)), TCBAddr(t) + 1, Hi(top))

\* the record of a task that has not run yet
FreshSnap(t, tk) ==
    [kind |-> "fresh", task |-> t, pc |-> tk.pxCode,
     pvParameters |-> tk.pvParameters]

\* the kernel creates task t
xTaskCreate(t) ==
    /\ pc = ADDR_main
    /\ ~ task[t].created
    /\ mcu' = CreateTask(mcu, t, task[t], cfg.pc3)
    /\ snaps' = [snaps EXCEPT ![t] = << FreshSnap(t, task[t]) >>]
    /\ task' = [task EXCEPT ![t].created = TRUE]
    /\ resumed' = NoSnap
    /\ UNCHANGED << cfg, pc, idelay, io, pxCurrentTCB, portTickRateHz,
                    ticksRemainingInSec, xTickCount, nTicks, nYields, nOps, running, hlog,
                    inflight, window, ended >>

\* the kernel selects the first task, disables interrupts and calls
\* xPortStartScheduler
vTaskStartScheduler ==
    /\ pc = ADDR_main
    /\ \A t \in Tasks : task[t].created
    /\ \E t \in Tasks : pxCurrentTCB' = TCBAddr(t)
    /\ mcu' = PushPC(Cli(mcu), ADDR_main + 1, cfg.pc3)
    /\ pc' = ADDR_xPortStartScheduler
    /\ idelay' = FALSE
    /\ hlog' = << >>
    /\ resumed' = NoSnap
    /\ UNCHANGED << cfg, task, io, portTickRateHz, ticksRemainingInSec,
                    xTickCount, nTicks, nYields, nOps, running, snaps, inflight, window, ended >>

\* as StartScheduler_setup, with interrupts enabled at the end of the setup
StartScheduler_setup_sei ==
    /\ pc = ADDR_xPortStartScheduler
    /\ io' = prvSetupTimerInterrupt(io, cfg)
    /\ portTickRateHz' \in SetupTickRates(cfg)
    /\ ticksRemainingInSec' = portTickRateHz'
    /\ hlog' = Append(hlog, << "SETUP", 0 >>)
    /\ pc' = pc + 1
    /\ idelay' = FALSE
    /\ resumed' = NoSnap
    /\ mcu' = [mcu EXCEPT !.sreg = SetBit(mcu.sreg, SREG_I)]
    /\ UNCHANGED << cfg, task, pxCurrentTCB, xTickCount, nTicks, nYields, nOps, running,
                    snaps, inflight, window, ended >>

\* xPortStartScheduler: prvSetupTimerInterrupt()
StartScheduler_setup ==
    /\ pc = ADDR_xPortStartScheduler
    /\ io' = prvSetupTimerInterrupt(io, cfg)
    /\ portTickRateHz' \in SetupTickRates(cfg)
    /\ ticksRemainingInSec' = portTickRateHz'
    /\ hlog' = Append(hlog, << "SETUP", 0 >>)
    /\ pc' = pc + 1
    /\ idelay' = FALSE
    /\ resumed' = NoSnap
    /\ UNCHANGED << cfg, task, mcu, pxCurrentTCB, xTickCount, nTicks, nYields, nOps, running,
                    snaps, inflight, window, ended >>

(***************************************************************************)
(* Steps shared by the functions that expand the two macros.               *)
(***************************************************************************)
\* portSAVE_CONTEXT: push __tmp_reg__
SavePushTmp(at) ==
    /\ pc = at
    /\ mcu' = SAVE_push_tmp(mcu)
    /\ inflight' = inflight + 1
    /\ pc' = pc + 1
    /\ idelay' = FALSE
    /\ resumed' = NoSnap
    /\ UNCHANGED << cfg, task, io, pxCurrentTCB, portTickRateHz,
                    ticksRemainingInSec, xTickCount, nTicks, nYields, nOps, running, snaps,
                    hlog, window, ended >>

\* portSAVE_CONTEXT: in __tmp_reg__, __SREG__
SaveInSreg(at) ==
    /\ pc = at
    /\ mcu' = SAVE_in_sreg(mcu)
    /\ pc' = pc + 1
    /\ idelay' = FALSE
    /\ resumed' = NoSnap
    /\ UNCHANGED << cfg, task, io, pxCurrentTCB, portTickRateHz,
                    ticksRemainingInSec, xTickCount, nTicks, nYields, nOps, running, snaps,
                    hlog, inflight, window, ended >>

\* portSAVE_CONTEXT: cli
SaveCli(at) ==
    /\ pc = at
    /\ mcu' = SAVE_cli(mcu)
    /\ window' = window + 1
    /\ hlog' = << >>
    /\ pc' = pc + 1
    /\ idelay' = FALSE
    /\ resumed' = NoSnap
    /\ UNCHANGED << cfg, task, io, pxCurrentTCB, portTickRateHz,
                    ticksRemainingInSec, xTickCount, nTicks, nYields, nOps, running, snaps,
                    inflight, ended >>

\* portSAVE_CONTEXT: the pushes after cli and the store of SP in the TCB
SaveBody(at) ==
    /\ pc = at
    /\ mcu' = SAVE_body(mcu, pxCurrentTCB, cfg.pc3)
    /\ hlog' = Append(hlog, << "SAVE", pxCurrentTCB >>)
    /\ pc' = pc + 1
    /\ idelay' = FALSE
    /\ resumed' = NoSnap
    /\ UNCHANGED << cfg, task, io, pxCurrentTCB, portTickRateHz,
                    ticksRemainingInSec, xTickCount, nTicks, nYields, nOps, running, snaps,
                    inflight, window, ended >>

\* vTaskSwitchContext(): the kernel points pxCurrentTCB at the task to run
SwitchContext(at) ==
    /\ pc = at
    /\ \E t \in Tasks : pxCurrentTCB' = TCBAddr(t)
    /\ mcu' = KernelCall(mcu, pc + 1, 0, cfg.pc3)
    /\ hlog' = Append(hlog, << "SWITCH", pxCurrentTCB' >>)
    /\ pc' = pc + 1
    /\ idelay' = FALSE
    /\ resumed' = NoSnap
    /\ UNCHANGED << cfg, task, io, portTickRateHz, ticksRemainingInSec,
                    xTickCount, nTicks, nYields, nOps, running, snaps, inflight, window, ended >>

\* portRESTORE_CONTEXT: from the load of SP to the pop of the status byte
RestoreBody(at) ==
    /\ pc = at
    /\ mcu' = RESTORE_body(mcu, pxCurrentTCB, cfg.pc3)
    /\ running' = TaskOf(pxCurrentTCB)
    /\ hlog' = Append(hlog, << "RESTORE", pxCurrentTCB >>)
    /\ pc' = pc + 1
    /\ idelay' = FALSE
    /\ resumed' = NoSnap
    /\ UNCHANGED << cfg, task, io, pxCurrentTCB, portTickRateHz,
                    ticksRemainingInSec, xTickCount, nTicks, nYields, nOps, snaps, inflight,
                    window, ended >>

\* portRESTORE_CONTEXT: out __SREG__, __tmp_reg__
RestoreOutSreg(at, closes) ==
    /\ pc = at
    /\ mcu' = RESTORE_out_sreg(mcu)
    /\ window' = IF closes THEN window - 1 ELSE window
    /\ pc' = pc + 1
    /\ idelay' = IntEnabled(mcu')
    /\ resumed' = NoSnap
    /\ UNCHANGED << cfg, task, io, pxCurrentTCB, portTickRateHz,
                    ticksRemainingInSec, xTickCount, nTicks, nYields, nOps, running, snaps,
                    hlog, inflight, ended >>

\* portRESTORE_CONTEXT: pop __tmp_reg__
RestorePopTmp(at, closes) ==
    /\ pc = at
    /\ mcu' = RESTORE_pop_tmp(mcu)
    /\ inflight' = IF closes THEN inflight - 1 ELSE inflight
    /\ pc' = pc + 1
    /\ idelay' = FALSE
    /\ resumed' = NoSnap
    /\ UNCHANGED << cfg, task, io, pxCurrentTCB, portTickRateHz,
                    ticksRemainingInSec, xTickCount, nTicks, nYields, nOps, running, snaps,
                    hlog, window, ended >>

\* __asm__ __volatile__ ( "ret" )
Ret(at) ==
    /\ pc = at
    /\ mcu' = RetPop(mcu, cfg.pc3)
    /\ pc' = RetAddr(mcu, cfg.pc3)
    /\ Resume(pc')
    /\ idelay' = FALSE
    /\ UNCHANGED << cfg, task, io, pxCurrentTCB, portTickRateHz,
                    ticksRemainingInSec, xTickCount, nTicks, nYields, nOps, running, hlog,
                    inflight, window, ended >>


(***************************************************************************)
(* xPortStartScheduler after the timer setup: portRESTORE_CONTEXT(); ret   *)
(***************************************************************************)
StartScheduler_restore == RestoreBody(ADDR_xPortStartScheduler + 1)

StartScheduler_out_sreg == RestoreOutSreg(ADDR_xPortStartScheduler + 2, FALSE)

StartScheduler_pop_tmp == RestorePopTmp(ADDR_xPortStartScheduler + 3, FALSE)

StartScheduler_ret == Ret(ADDR_xPortStartScheduler + 4)

(***************************************************************************)
(* vPortYield: portSAVE_CONTEXT(); vTaskSwitchContext();                   *)
(*             portRESTORE_CONTEXT(); ret                                  *)
(***************************************************************************)
vPortYield_push_tmp == SavePushTmp(ADDR_vPortYield)

vPortYield_in_sreg == SaveInSreg(ADDR_vPortYield + 1)

vPortYield_cli == SaveCli(ADDR_vPortYield + 2)

vPortYield_save == SaveBody(ADDR_vPortYield + 3)

\* as vPortYield_switch, with the call of vTaskSwitchContext left out
vPortYield_switch_absent ==
    /\ pc = ADDR_vPortYield + 4
    /\ pc' = pc + 1
    /\ idelay' = FALSE
    /\ resumed' = NoSnap
    /\ UNCHANGED << cfg, task, mcu, io, pxCurrentTCB, portTickRateHz,
                    ticksRemainingInSec, xTickCount, nTicks, nYields, nOps,
                    running, snaps, hlog, inflight, window, ended >>

vPortYield_switch == SwitchContext(ADDR_vPortYield + 4)

vPortYield_restore == RestoreBody(ADDR_vPortYield + 5)

vPortYield_out_sreg == RestoreOutSreg(ADDR_vPortYield + 6, TRUE)

vPortYield_pop_tmp == RestorePopTmp(ADDR_vPortYield + 7, TRUE)

vPortYield_ret == Ret(ADDR_vPortYield + 8)

(***************************************************************************)
(* vPortYieldFromTick: portSAVE_CONTEXT();                                 *)
(*     if( xTaskIncrementTick() != pdFALSE ) vTaskSwitchContext();         *)
(*     portRESTORE_CONTEXT(); ret                                          *)
(***************************************************************************)
vPortYieldFromTick_push_tmp == SavePushTmp(ADDR_vPortYieldFromTick)

vPortYieldFromTick_in_sreg == SaveInSreg(ADDR_vPortYieldFromTick + 1)

vPortYieldFromTick_cli == SaveCli(ADDR_vPortYieldFromTick + 2)

vPortYieldFromTick_save == SaveBody(ADDR_vPortYieldFromTick + 3)

\* as TickBranch, with the test of the result left out
TickBranch_always(at, xSwitchRequired) == at + 1

\* if( xTaskIncrementTick() != pdFALSE ): where execution continues
TickBranch(at, xSwitchRequired) ==
    IF xSwitchRequired # 0 THEN at + 1 ELSE at + 2

\* as vPortYieldFromTick_tick, with xTaskIncrementTick() called twice
vPortYieldFromTick_tick_twice ==
    /\ pc = ADDR_vPortYieldFromTick + 4
    /\ \E xSwitchRequired \in {0, 1} :
          /\ mcu' = KernelCall(mcu, pc + 1, xSwitchRequired, cfg.pc3)
          /\ hlog' = Append(hlog, << "TICK", xSwitchRequired >>)
          /\ pc' = TickBranch(pc, mcu'.reg[24])
    /\ xTickCount' = xTickCount + 2
    /\ idelay' = FALSE
    /\ resumed' = NoSnap
    /\ UNCHANGED << cfg, task, io, pxCurrentTCB, portTickRateHz,
                    ticksRemainingInSec, nTicks, nYields, nOps, running, snaps,
                    inflight, window, ended >>

\* xTaskIncrementTick() and the test of its result
vPortYieldFromTick_tick ==
    /\ pc = ADDR_vPortYieldFromTick + 4
    /\ \E xSwitchRequired \in {0, 1} :
          /\ mcu' = KernelCall(mcu, pc + 1, xSwitchRequired, cfg.pc3)
          /\ hlog' = Append(hlog, << "TICK", xSwitchRequired >>)
          /\ pc' = TickBranch(pc, mcu'.reg[24])
    /\ xTickCount' = xTickCount + 1
    /\ idelay' = FALSE
    /\ resumed' = NoSnap
    /\ UNCHANGED << cfg, task, io, pxCurrentTCB, portTickRateHz,
                    ticksRemainingInSec, nTicks, nYields, nOps, running, snaps, inflight,
                    window, ended >>

vPortYieldFromTick_switch == SwitchContext(ADDR_vPortYieldFromTick + 5)

vPortYieldFromTick_restore == RestoreBody(ADDR_vPortYieldFromTick + 6)

vPortYieldFromTick_out_sreg == RestoreOutSreg(ADDR_vPortYieldFromTick + 7, TRUE)

vPortYieldFromTick_pop_tmp == RestorePopTmp(ADDR_vPortYieldFromTick + 8, TRUE)

vPortYieldFromTick_ret == Ret(ADDR_vPortYieldFromTick + 9)

(***************************************************************************)
(* The tick interrupt.                                                     *)
(***************************************************************************)
\* the hardware takes the tick interrupt: the program counter is pushed, I is
\* cleared and the handler is entered
TickInterrupt ==
    /\ TickEnabled(io, cfg)
    /\ IntEnabled(mcu)
    /\ ~ idelay
    /\ running \in Tasks
    /\ Events < MaxEvents
    /\ nTicks' = nTicks + 1
    /\ snaps' = PushSnap(running, Snap("tick", pc, mcu, running))
    /\ mcu' = Cli(PushPC(mcu, pc, cfg.pc3))
    /\ pc' = ADDR_ISR
    /\ idelay' = FALSE
    /\ resumed' = NoSnap
    /\ UNCHANGED << cfg, task, io, pxCurrentTCB, portTickRateHz,
                    ticksRemainingInSec, xTickCount, running, hlog, inflight,
                    window, ended , nYields, nOps >>

\* ISR(portSCHEDULER_ISR), preemptive build: vPortYieldFromTick();
ISR_preemptive_call ==
    /\ pc = ADDR_ISR
    /\ cfg.preempt
    /\ mcu' = PushPC(mcu, ADDR_reti, cfg.pc3)
    /\ pc' = ADDR_vPortYieldFromTick
    /\ idelay' = FALSE
    /\ resumed' = NoSnap
    /\ UNCHANGED << cfg, task, io, pxCurrentTCB, portTickRateHz,
                    ticksRemainingInSec, xTickCount, nTicks, nYields, nOps, running, snaps,
                    hlog, inflight, window, ended >>

\* as ISR_cooperative_tick, with the body of the preemptive handler
ISR_cooperative_tick_yields ==
    /\ pc = ADDR_ISR
    /\ ~ cfg.preempt
    /\ mcu' = PushPC(mcu, ADDR_reti, cfg.pc3)
    /\ pc' = ADDR_vPortYieldFromTick
    /\ idelay' = FALSE
    /\ resumed' = NoSnap
    /\ UNCHANGED << cfg, task, io, pxCurrentTCB, portTickRateHz,
                    ticksRemainingInSec, xTickCount, nTicks, nYields, nOps,
                    running, snaps, hlog, inflight, window, ended >>

\* ISR(portSCHEDULER_ISR), cooperative build: xTaskIncrementTick(); the
\* compiler's prologue and epilogue keep the registers of the interrupted code
ISR_cooperative_tick ==
    /\ pc = ADDR_ISR
    /\ ~ cfg.preempt
    /\ \E xSwitchRequired \in {0, 1} :
          hlog' = << << "TICK", xSwitchRequired >> >>
    /\ mcu' = RetPop(PushPC(mcu, ADDR_reti, cfg.pc3), cfg.pc3)
    /\ xTickCount' = xTickCount + 1
    /\ pc' = ADDR_reti
    /\ idelay' = FALSE
    /\ resumed' = NoSnap
    /\ UNCHANGED << cfg, task, io, pxCurrentTCB, portTickRateHz,
                    ticksRemainingInSec, nTicks, nYields, nOps, running, snaps, inflight,
                    window, ended >>

\* reti: return to the interrupted code with I set
ISR_reti ==
    /\ pc = ADDR_reti
    /\ mcu' = [RetPop(mcu, cfg.pc3) EXCEPT !.sreg = SetBit(mcu.sreg, SREG_I)]
    /\ pc' = RetAddr(mcu, cfg.pc3)
    /\ Resume(pc')
    /\ idelay' = TRUE
    /\ UNCHANGED << cfg, task, io, pxCurrentTCB, portTickRateHz,
                    ticksRemainingInSec, xTickCount, nTicks, nYields, nOps, running, hlog,
                    inflight, window, ended >>

(***************************************************************************)
(* Task code.                                                              *)
(***************************************************************************)
\* the processor is executing the code of the running task
InTask ==
    /\ running \in Tasks
    /\ pc \in {task[running].pxCode, task[running].pxCode + 1}

NextPC == NextTaskPC(task[running].pxCode, pc)

\* the task computes: registers and arithmetic flags change
TaskCompute(k) ==
    /\ InTask
    /\ Events < MaxEvents
    /\ nOps' = nOps + 1
    /\ mcu' = [mcu EXCEPT !.reg = Pattern(k),
                          !.sreg = Bit(mcu.sreg, SREG_I) * 2 ^ SREG_I + Flags(k),
                          !.rampz = IF cfg.pc3 THEN k ELSE 0,
                          !.eind = IF cfg.pc3 THEN k + 8 ELSE 0]
    /\ mcu' # mcu
    /\ pc' = NextPC
    /\ idelay' = FALSE
    /\ resumed' = NoSnap
    /\ UNCHANGED << cfg, task, io, pxCurrentTCB, portTickRateHz,
                    ticksRemainingInSec, xTickCount, nTicks, nYields, running, snaps,
                    hlog, inflight, window, ended >>

\* the task pushes a byte on its stack
TaskPush ==
    /\ InTask
    /\ Events < MaxEvents
    /\ nOps' = nOps + 1
    /\ mcu.sp > StackTop(running) - 3 - MaxEvents
    /\ mcu' = Push(mcu, mcu.reg[16])
    /\ pc' = NextPC
    /\ idelay' = FALSE
    /\ resumed' = NoSnap
    /\ UNCHANGED << cfg, task, io, pxCurrentTCB, portTickRateHz,
                    ticksRemainingInSec, xTickCount, nTicks, nYields, running, snaps,
                    hlog, inflight, window, ended >>

\* the task pops a byte it pushed
TaskPop ==
    /\ InTask
    /\ mcu.sp < StackTop(running) - 3
    /\ mcu' = PopReg(mcu, 17)
    /\ pc' = NextPC
    /\ idelay' = FALSE
    /\ resumed' = NoSnap
    /\ UNCHANGED << cfg, task, io, pxCurrentTCB, portTickRateHz,
                    ticksRemainingInSec, xTickCount, nTicks, nYields, nOps, running, snaps,
                    hlog, inflight, window, ended >>

\* the task enters a critical section: cli
TaskCli ==
    /\ InTask
    /\ Events < MaxEvents
    /\ nOps' = nOps + 1
    /\ IntEnabled(mcu)
    /\ mcu' = Cli(mcu)
    /\ pc' = NextPC
    /\ idelay' = FALSE
    /\ resumed' = NoSnap
    /\ UNCHANGED << cfg, task, io, pxCurrentTCB, portTickRateHz,
                    ticksRemainingInSec, xTickCount, nTicks, nYields, running, snaps,
                    hlog, inflight, window, ended >>

\* the task leaves a critical section: sei
TaskSei ==
    /\ InTask
    /\ ~ IntEnabled(mcu)
    /\ mcu' = [mcu EXCEPT !.sreg = SetBit(mcu.sreg, SREG_I)]
    /\ pc' = NextPC
    /\ idelay' = TRUE
    /\ resumed' = NoSnap
    /\ UNCHANGED << cfg, task, io, pxCurrentTCB, portTickRateHz,
                    ticksRemainingInSec, xTickCount, nTicks, nYields, nOps, running, snaps,
                    hlog, inflight, window, ended >>

\* the task calls vPortYield()
TaskYield ==
    /\ InTask
    /\ Events < MaxEvents
    /\ nYields' = nYields + 1
    /\ snaps' = PushSnap(running, Snap("yield", NextPC, mcu, running))
    /\ mcu' = PushPC(mcu, NextPC, cfg.pc3)
    /\ pc' = ADDR_vPortYield
    /\ idelay' = FALSE
    /\ resumed' = NoSnap
    /\ UNCHANGED << cfg, task, io, pxCurrentTCB, portTickRateHz,
                    ticksRemainingInSec, xTickCount, nTicks, nOps, running, hlog,
                    inflight, window, ended >>

\* the task ends the scheduler: the kernel disables interrupts and calls
\* vPortEndScheduler()
TaskEndScheduler ==
    /\ InTask
    /\ ~ ended
    /\ Events < MaxEvents
    /\ nOps' = nOps + 1
    /\ mcu' = PushPC(Cli(mcu), NextPC, cfg.pc3)
    /\ pc' = ADDR_vPortEndScheduler
    /\ idelay' = FALSE
    /\ resumed' = NoSnap
    /\ UNCHANGED << cfg, task, io, pxCurrentTCB, portTickRateHz,
                    ticksRemainingInSec, xTickCount, nTicks, nYields, running, snaps,
                    hlog, inflight, window, ended >>

\* vPortEndScheduler: the tick interrupt is disabled; the function returns
vPortEndScheduler ==
    /\ pc = ADDR_vPortEndScheduler
    /\ io' = vPortEndSchedulerIO(io, cfg)
    /\ mcu' = RetPop(mcu, cfg.pc3)
    /\ pc' = RetAddr(mcu, cfg.pc3)
    /\ ended' = TRUE
    /\ idelay' = FALSE
    /\ resumed' = NoSnap
    /\ UNCHANGED << cfg, task, pxCurrentTCB, portTickRateHz,
                    ticksRemainingInSec, xTickCount, nTicks, nYields, nOps, running, snaps,
                    hlog, inflight, window >>

(***************************************************************************)
(* The system.                                                             *)
(***************************************************************************)
Next ==
    \/ \E t \in Tasks : xTaskCreate(t)
    \/ vTaskStartScheduler
    \/ StartScheduler_setup
    \/ StartScheduler_restore
    \/ StartScheduler_out_sreg
    \/ StartScheduler_pop_tmp
    \/ StartScheduler_ret
    \/ vPortYield_push_tmp
    \/ vPortYield_in_sreg
    \/ vPortYield_cli
    \/ vPortYield_save
    \/ vPortYield_switch
    \/ vPortYield_restore
    \/ vPortYield_out_sreg
    \/ vPortYield_pop_tmp
    \/ vPortYield_ret
    \/ vPortYieldFromTick_push_tmp
    \/ vPortYieldFromTick_in_sreg
    \/ vPortYieldFromTick_cli
    \/ vPortYieldFromTick_save
    \/ vPortYieldFromTick_tick
    \/ vPortYieldFromTick_switch
    \/ vPortYieldFromTick_restore
    \/ vPortYieldFromTick_out_sreg
    \/ vPortYieldFromTick_pop_tmp
    \/ vPortYieldFromTick_ret
    \/ TickInterrupt
    \/ ISR_preemptive_call
    \/ ISR_cooperative_tick
    \/ ISR_reti
    \/ \E k \in 1 .. NumPatterns : TaskCompute(k)
    \/ TaskPush
    \/ TaskPop
    \/ TaskCli
    \/ TaskSei
    \/ TaskYield
    \/ TaskEndScheduler
    \/ vPortEndScheduler

Spec == Init /\ [][Next]_vars


(***************************************************************************)
(* The same system with the tick source never firing, started from a wider *)
(* choice of entry points, parameters and register contents.               *)
(***************************************************************************)
WideEntryPoints == {255, 336, 4768, 65280}

WideParams == {0, 255, 43981, 65280, 65535}

WideTaskInputs ==
    { [t \in Tasks |-> [pxCode |-> IF t = 0 THEN e ELSE 4768,
                        pvParameters |-> IF t = 0 THEN p ELSE 0,
                        created |-> FALSE]] :
      e \in WideEntryPoints, p \in WideParams }

\* register files and status bytes task code may hold
WideLoads ==
    { << [i \in Regs |-> 0], 0 >>,
      << [i \in Regs |-> 255], 127 >>,
      << [i \in Regs |-> 255], 255 >>,
      << Pattern(3), 128 >> }

\* one build for each width of the program counter: no tick is taken here
WideConfigs == {c \in Configs : c.preempt}

InitWide ==
    /\ cfg \in WideConfigs
    /\ task \in WideTaskInputs
    /\ mcu = [reg |-> [i \in Regs |-> 0], sreg |-> 0, sp |-> MainStackTop,
              rampz |-> 0, eind |-> 0, mem |-> [a \in RAM |-> 0]]
    /\ pc = ADDR_main
    /\ idelay = FALSE
    /\ io = [OCR0A |-> 0, TCCR0A |-> 0, TCCR0B |-> 0, TIMSK0 |-> 0, WDTCSR |-> 0]
    /\ pxCurrentTCB = 0
    /\ portTickRateHz = 0
    /\ ticksRemainingInSec = 0
    /\ xTickCount = 0
    /\ nTicks = 0
    /\ nYields = 0
    /\ nOps = 0
    /\ running = NoTask
    /\ snaps = [t \in Tasks |-> << >>]
    /\ resumed = NoSnap
    /\ hlog = << >>
    /\ inflight = 0
    /\ window = 0
    /\ ended = FALSE

\* the task loads a register file and a status byte
TaskLoad(rf, sr) ==
    /\ InTask
    /\ Events < MaxEvents
    /\ nOps' = nOps + 1
    /\ mcu' = [mcu EXCEPT !.reg = rf, !.sreg = sr,
                          !.rampz = IF cfg.pc3 THEN rf[3] ELSE 0,
                          !.eind = IF cfg.pc3 THEN 255 - rf[3] ELSE 0]
    /\ pc' = NextPC
    /\ idelay' = (IntEnabled(mcu') /\ ~ IntEnabled(mcu))
    /\ resumed' = NoSnap
    /\ UNCHANGED << cfg, task, io, pxCurrentTCB, portTickRateHz,
                    ticksRemainingInSec, xTickCount, nTicks, nYields, running,
                    snaps, hlog, inflight, window, ended >>

NextWide ==
    \/ \E t \in Tasks : xTaskCreate(t)
    \/ vTaskStartScheduler
    \/ StartScheduler_setup
    \/ StartScheduler_restore
    \/ StartScheduler_out_sreg
    \/ StartScheduler_pop_tmp
    \/ StartScheduler_ret
    \/ vPortYield_push_tmp
    \/ vPortYield_in_sreg
    \/ vPortYield_cli
    \/ vPortYield_save
    \/ vPortYield_switch
    \/ vPortYield_restore
    \/ vPortYield_out_sreg
    \/ vPortYield_pop_tmp
    \/ vPortYield_ret
    \/ \E ld \in WideLoads : TaskLoad(ld[1], ld[2])
    \/ TaskPush
    \/ TaskPop
    \/ TaskYield

SpecWide == InitWide /\ [][NextWide]_vars

(***************************************************************************)
(* The timer setup over many build configurations: xPortStartScheduler is  *)
(* entered and prvSetupTimerInterrupt runs; then the watchdog expires.     *)
(***************************************************************************)
\* processor clocks of ATmega boards, in Hz
SetupClocks == {1000000, 8000000, 14745600, 16000000, 20000000}

\* the builds: Timer0 with every clock and every requested rate, the watchdog
\* with every time-out selection
SetupConfigs ==
    { [preempt |-> TRUE, pc3 |-> FALSE, wdt |-> FALSE,
       configCPU_CLOCK_HZ |-> f, configTICK_RATE_HZ |-> r, portUSE_WDTO |-> 0] :
      f \in SetupClocks, r \in 1 .. MaxTickRate }
    \cup
    { [preempt |-> TRUE, pc3 |-> FALSE, wdt |-> TRUE,
       configCPU_CLOCK_HZ |-> 16000000, configTICK_RATE_HZ |-> 62,
       portUSE_WDTO |-> w] : w \in 0 .. MaxWDTO }

\* the application's tasks, created
SetupTasks ==
    [t \in Tasks |-> [pxCode |-> IF t = 0 THEN 336 ELSE 4768,
                      pvParameters |-> IF t = 0 THEN 43981 ELSE 0,
                      created |-> TRUE]]

\* the kernel has created the tasks, selected task 0, disabled interrupts and
\* called xPortStartScheduler
InitSetup ==
    /\ cfg \in SetupConfigs
    /\ task = SetupTasks
    /\ mcu = LET m0 == [reg |-> [i \in Regs |-> 0], sreg |-> 0,
                        sp |-> MainStackTop, rampz |-> 0, eind |-> 0,
                        mem |-> [a \in RAM |-> 0]]
                 m1 == CreateTask(m0, 0, SetupTasks[0], cfg.pc3)
                 m2 == CreateTask(m1, 1, SetupTasks[1], cfg.pc3)
             IN  PushPC(Cli(m2), ADDR_main + 1, cfg.pc3)
    /\ pc = ADDR_xPortStartScheduler
    /\ idelay = FALSE
    /\ io = [OCR0A |-> 0, TCCR0A |-> 0, TCCR0B |-> 0, TIMSK0 |-> 0, WDTCSR |-> 0]
    /\ pxCurrentTCB = TCBAddr(0)
    /\ portTickRateHz = 0
    /\ ticksRemainingInSec = 0
    /\ xTickCount = 0
    /\ nTicks = 0
    /\ nYields = 0
    /\ nOps = 0
    /\ running = NoTask
    /\ snaps = [t \in Tasks |-> << FreshSnap(t, SetupTasks[t]) >>]
    /\ resumed = NoSnap
    /\ hlog = << >>
    /\ inflight = 0
    /\ window = 0
    /\ ended = FALSE

\* the watchdog timer expires: with WDE set and WDIE clear the processor is
\* reset; with WDIE set the interrupt is raised, and the hardware clears WDIE
\* when WDE is set as well, so that the next expiry resets
WatchdogExpiry ==
    /\ cfg.wdt
    /\ pc = ADDR_xPortStartScheduler + 1
    /\ nTicks < MaxEvents
    /\ Bit(io.WDTCSR, WDIE) = 1 \/ Bit(io.WDTCSR, WDE) = 1
    /\ nTicks' = nTicks + 1
    /\ IF Bit(io.WDTCSR, WDIE) = 0
       THEN pc' = ADDR_reset /\ io' = io
       ELSE /\ pc' = pc
            /\ io' = IF Bit(io.WDTCSR, WDE) = 1
                     THEN [io EXCEPT !.WDTCSR = ClrBit(@, WDIE)]
                     ELSE io
    /\ UNCHANGED << cfg, task, mcu, idelay, pxCurrentTCB, portTickRateHz,
                    ticksRemainingInSec, xTickCount, nYields, nOps, running,
                    snaps, resumed, hlog, inflight, window, ended >>

NextSetup ==
    \/ StartScheduler_setup
    \/ WatchdogExpiry

SpecSetup == InitSetup /\ [][NextSetup]_vars


(***************************************************************************)
(* Properties.                                                             *)
(***************************************************************************)

\* C1: a task started for the first time (its frame built by
\* pxPortInitialiseStack, then consumed by portRESTORE_CONTEXT and a ret) is at
\* its entry point with r24 = low byte and r25 = high byte of its parameter,
\* r1 = 0 and the global interrupt enable flag set.
C1_FirstStartAtEntryWithParameter ==
    resumed.kind = "fresh" =>
        /\ running = resumed.task
        /\ pc = task[running].pxCode
        /\ mcu.reg[24] = Lo(task[running].pvParameters)
        /\ mcu.reg[25] = Hi(task[running].pvParameters)
        /\ mcu.reg[1] = 0
        /\ IntEnabled(mcu)

\* a task with a parameter of two different non-zero bytes has just started
C1_Witness ==
    /\ resumed.kind = "fresh"
    /\ task[running].pvParameters = 43981
    /\ pc = 65280
    /\ mcu.sp = StackTop(running) - 3


\* the registers and flags a save and restore must give back
Context(m) == << m.reg, m.sreg, m.rampz, m.eind >>

\* vPortYield has saved the caller, the kernel has left pxCurrentTCB alone and
\* the restore is complete
YieldedToSelf ==
    /\ pc = ADDR_vPortYield + 8
    /\ hlog = << << "SAVE", pxCurrentTCB >>, << "SWITCH", pxCurrentTCB >>,
                 << "RESTORE", pxCurrentTCB >> >>
    /\ snaps[running] # << >>

\* C2: portSAVE_CONTEXT followed by portRESTORE_CONTEXT with pxCurrentTCB
\* unchanged gives back r0..r31 and the status register (and the extended
\* registers) exactly as they were before the save: both for the two macros
\* applied back to back to the state task code is in, and for the save and
\* restore vPortYield has performed when the kernel kept the same task.
C2_SaveThenRestoreIsIdentity ==
    /\ InTask =>
          Context(portRESTORE_CONTEXT(
                      portSAVE_CONTEXT(mcu, pxCurrentTCB, cfg.pc3),
                      pxCurrentTCB, cfg.pc3)) = Context(mcu)
    /\ YieldedToSelf =>
          LET sn == Head(snaps[running])
          IN  Context(mcu) = << sn.reg, sn.sreg, sn.rampz, sn.eind >>

\* a task holding 0xff in every register and every flag but I set has yielded
\* to itself
C2_Witness ==
    /\ YieldedToSelf
    /\ mcu.reg = [i \in Regs |-> 255]
    /\ mcu.sreg = 127

\* the bytes of task t's first frame below its entry-point address
FrameBelowEntry(t) ==
    LET fr == InitialFrame(task[t].pxCode, task[t].pvParameters, cfg.pc3)
        n  == 3 + PCBytes(cfg.pc3)
    IN  [i \in 1 .. (Len(fr) - n) |-> fr[n + i]]

\* the task now in vPortYield called it as its very first instruction and its
\* save is complete
FirstSaveDone ==
    /\ pc = ADDR_vPortYield + 4
    /\ snaps[running] # << >>
    /\ Head(snaps[running]).kind = "yield"
    /\ Head(snaps[running]).first

C4_ResumedWhereSuspended ==
    /\ resumed.kind # "unknown"
    /\ resumed.kind = "fresh" =>
          /\ running = resumed.task
          /\ pc = task[running].pxCode
    /\ resumed.kind \in {"yield", "tick"} =>
          /\ running = resumed.task
          /\ pc = resumed.pc
          /\ mcu.reg = resumed.reg
          /\ mcu.rampz = resumed.rampz
          /\ mcu.eind = resumed.eind
          /\ mcu.sp = resumed.sp
          /\ StackSeq(mcu, running) = resumed.stack

\* a task the tick interrupt suspended is back in its code, brought back by
\* the restore of another task's vPortYield
C4_Witness ==
    /\ resumed.kind = "tick"
    /\ Len(hlog) = 3
    /\ hlog[1][1] = "SAVE"
    /\ hlog[2][1] = "SWITCH"
    /\ hlog[3] = << "RESTORE", TCBAddr(resumed.task) >>
    /\ hlog[1][2] # hlog[3][2]

\* the instructions from a save's cli to the SREG write of the restore after it
ProtectedPCs ==
    (ADDR_vPortYield + 3 .. ADDR_vPortYield + 6)
        \cup (ADDR_vPortYieldFromTick + 3 .. ADDR_vPortYieldFromTick + 7)

\* C5 as stated: while a save has begun and the restore following it has not
\* finished, no second save begins.
C5_NoSaveBeginsDuringAnother == inflight <= 1

\* C5: from the cli of a save to the SREG write of the restore that follows
\* it, interrupts are off and only that save and restore execute, so no second
\* save begins or is under way in that window; a tick taken before the cli
\* (after the push of r0 or the flags capture) runs its own save and restore
\* inside the interrupted one.
C5_NoSaveBeginsAfterCli ==
    /\ window \in {0, 1}
    /\ window = 1 => (~ IntEnabled(mcu) /\ pc \in ProtectedPCs)
    /\ pc \in ProtectedPCs => window = 1

\* the tick interrupt was taken in vPortYield right after the flags capture,
\* before cli, and the handler's own save is past its cli
C5_Witness ==
    /\ pc = ADDR_vPortYieldFromTick + 4
    /\ window = 1
    /\ inflight = 2
    /\ snaps[running] # << >>
    /\ Head(snaps[running]).kind = "tick"
    /\ Head(snaps[running]).pc = ADDR_vPortYield + 2

\* the operations in a handler's log, without their arguments
Kinds(log) == [i \in 1 .. Len(log) |-> log[i][1]]

C7_CooperativeTickOnlyCounts ==
    /\ [](~ cfg.preempt =>
             /\ pc \notin (ADDR_vPortYieldFromTick .. ADDR_vPortYieldFromTick + 9)
             /\ pc = ADDR_reti => Kinds(hlog) = << "TICK" >>
             /\ resumed.kind = "tick" =>
                   /\ running = resumed.task
                   /\ pxCurrentTCB = TCBAddr(resumed.task)
                   /\ pc = resumed.pc
                   /\ mcu.reg = resumed.reg
                   /\ StackSeq(mcu, running) = resumed.stack)
    /\ [][~ cfg.preempt =>
             /\ pc \in {ADDR_ISR, ADDR_reti} =>
                   /\ pxCurrentTCB' = pxCurrentTCB
                   /\ running' = running
                   /\ mcu'.reg = mcu.reg
                   /\ inflight' = inflight
                   /\ window' = window
             /\ running' # running =>
                   pc \in {ADDR_vPortYield + 5, ADDR_xPortStartScheduler + 1}]_vars

\* in a cooperative build a tick for which xTaskIncrementTick returned pdTRUE
\* has returned to the task it interrupted
C7_Witness ==
    /\ ~ cfg.preempt
    /\ resumed.kind = "tick"
    /\ hlog = << << "TICK", 1 >> >>

\* C8: vPortYield saves the calling task, then calls vTaskSwitchContext, then
\* restores the task pxCurrentTCB designates after that call, each exactly
\* once and in that order; no step of vPortYield advances the tick count.
C8_YieldSavesSwitchesRestores ==
    /\ [](/\ pc = ADDR_vPortYield + 3 => hlog = << >>
          /\ pc = ADDR_vPortYield + 4 =>
                /\ hlog = << << "SAVE", TCBAddr(running) >> >>
                /\ snaps[running] # << >>
                /\ Head(snaps[running]).kind = "yield"
          /\ pc = ADDR_vPortYield + 5 =>
                /\ Kinds(hlog) = << "SAVE", "SWITCH" >>
                /\ hlog[1][2] = TCBAddr(running)
                /\ hlog[2][2] = pxCurrentTCB
          /\ pc \in (ADDR_vPortYield + 6 .. ADDR_vPortYield + 7) =>
                /\ Kinds(hlog) = << "SAVE", "SWITCH", "RESTORE" >>
                /\ hlog[2][2] = pxCurrentTCB
                /\ hlog[3][2] = pxCurrentTCB
                /\ running = TaskOf(pxCurrentTCB))
    /\ [][(pc \in (ADDR_vPortYield .. ADDR_vPortYield + 8))
             => xTickCount' = xTickCount]_vars

\* task 0 has called vPortYield, the kernel has chosen task 1 and task 1 is
\* restored
C8_Witness ==
    /\ pc = ADDR_vPortYield + 7
    /\ hlog = << << "SAVE", TCBAddr(0) >>, << "SWITCH", TCBAddr(1) >>,
                 << "RESTORE", TCBAddr(1) >> >>

\* C9: xPortStartScheduler first sets up the tick source, then restores the
\* task pxCurrentTCB designates, once, with no save, and its ret enters that
\* task: neither "return pdTRUE" nor the caller's return address is reached.
C9_StartSchedulerNeverReturns ==
    /\ [](/\ pc # ADDR_return_pdTRUE
          /\ pc # ADDR_main + 1
          /\ pc = ADDR_xPortStartScheduler + 1 =>
                /\ hlog = << << "SETUP", 0 >> >>
                /\ TickEnabled(io, cfg)
                /\ running = NoTask
          /\ pc \in (ADDR_xPortStartScheduler + 2 .. ADDR_xPortStartScheduler + 3) =>
                /\ hlog = << << "SETUP", 0 >>, << "RESTORE", pxCurrentTCB >> >>
                /\ running = TaskOf(pxCurrentTCB))
    /\ [][pc = ADDR_xPortStartScheduler + 4 /\ pc' # ADDR_ISR =>
             /\ pc' = task[TaskOf(pxCurrentTCB)].pxCode
             /\ resumed'.kind = "fresh"
             /\ mcu'.sp = StackTop(TaskOf(pxCurrentTCB)) - 3]_vars

\* xPortStartScheduler has set up the tick source and restored task 1
C9_Witness ==
    /\ pc = ADDR_xPortStartScheduler + 3
    /\ hlog = << << "SETUP", 0 >>, << "RESTORE", TCBAddr(1) >> >>
    /\ IntEnabled(mcu)

\* C10: once vPortEndScheduler has returned the tick source raises no
\* interrupt, so no tick is taken and the tick count stays; vPortEndScheduler
\* itself runs no save or restore and leaves RAM (the control blocks and the
\* stacks) and pxCurrentTCB as they are.
C10_NoTickAfterEndScheduler ==
    /\ [](ended => ~ TickEnabled(io, cfg))
    /\ [][/\ ended => (nTicks' = nTicks /\ xTickCount' = xTickCount)
          /\ pc = ADDR_vPortEndScheduler =>
                /\ mcu'.mem = mcu.mem
                /\ mcu'.reg = mcu.reg
                /\ pxCurrentTCB' = pxCurrentTCB
                /\ running' = running
                /\ hlog' = hlog
                /\ inflight' = inflight
                /\ window' = window
                /\ InTask']_vars

\* the scheduler was ended before any tick; the task runs with interrupts
\* enabled, where a tick would be taken were the source still enabled
C10_Witness ==
    /\ ended
    /\ nTicks = 0
    /\ running \in Tasks
    /\ IntEnabled(mcu)
    /\ ~ idelay


\* prvSetupTimerInterrupt has run for Timer0
Timer0SetUp ==
    /\ ~ cfg.wdt
    /\ pc = ADDR_xPortStartScheduler + 1

\* C11 as stated: for every Timer0 configuration the published rate is the
\* clock divided by 1024 times one more than the value written to the compare
\* register.
C11_PublishedRateIsHardwareRate ==
    Timer0SetUp =>
        portTickRateHz
            = cfg.configCPU_CLOCK_HZ \div (portCLOCK_PRESCALER * (io.OCR0A + 1))

\* C12 as stated: for every Timer0 configuration the quotient clock / rate /
\* 1024 is in 1..256, so that the value written to the compare register is
\* the quotient less one, unwrapped and untruncated.
C12_CompareValueRepresentable ==
    Timer0SetUp =>
        /\ ulCompareMatch(cfg) \in 1 .. 256
        /\ io.OCR0A = ulCompareMatch(cfg) - 1

\* the build with a 16 MHz clock that asks for 1000 ticks per second
Is16MHz1000Hz ==
    /\ cfg.configCPU_CLOCK_HZ = 16000000
    /\ cfg.configTICK_RATE_HZ = 1000

\* C13: with a 16 MHz clock and 1000 Hz requested, prvSetupTimerInterrupt
\* writes 14 to the compare register and sets portTickRateHz and
\* ticksRemainingInSec to 1041.
C13_SixteenMHzGives1041 ==
    (Timer0SetUp /\ Is16MHz1000Hz) =>
        /\ io.OCR0A = 14
        /\ portTickRateHz = 1041
        /\ ticksRemainingInSec = 1041

\* the timer is set up for 16 MHz and 1000 Hz
C13_Witness ==
    /\ Timer0SetUp
    /\ Is16MHz1000Hz
    /\ io.TIMSK0 = 2 ^ OCIE0A

\* C14: when the quotient n = clock / rate / 1024 is in 1..256, the reported
\* rate is at least the requested rate and exceeds it by less than
\* requested / n.
C14_AchievedRateWithinQuantum ==
    (Timer0SetUp /\ ulCompareMatch(cfg) \in 1 .. 256) =>
        /\ cfg.configTICK_RATE_HZ <= portTickRateHz
        /\ (portTickRateHz - cfg.configTICK_RATE_HZ) * ulCompareMatch(cfg)
               < cfg.configTICK_RATE_HZ

\* the timer is set up for a 20 MHz clock with a quotient the register can
\* hold, and the reported rate is above the requested one
C14_Witness ==
    /\ Timer0SetUp
    /\ cfg.configCPU_CLOCK_HZ = 20000000
    /\ ulCompareMatch(cfg) \in 2 .. 256
    /\ portTickRateHz > cfg.configTICK_RATE_HZ

(***************************************************************************)
(* C15: the interrupt-enable bit of the saved status byte.                 *)
(***************************************************************************)
\* the stack pointer kept in task t's control block
SavedSP(t) == Word(Rd(mcu, TCBAddr(t)), Rd(mcu, TCBAddr(t) + 1))

\* the status byte of task t's saved context: r1..r31 (and the extended
\* registers) lie between it and the saved stack pointer
SavedStatus(t) ==
    Rd(mcu, SavedSP(t) + 32 + (IF cfg.pc3 THEN 2 ELSE 0))

\* the save of the running task is complete and its restore has not begun
SaveComplete ==
    pc \in {ADDR_vPortYield + 4, ADDR_vPortYield + 5,
            ADDR_vPortYieldFromTick + 4, ADDR_vPortYieldFromTick + 5,
            ADDR_vPortYieldFromTick + 6}

\* task t is suspended with a context saved by kind: "yield" or "tick"
SuspendedBy(t, kind) ==
    /\ snaps[t] # << >>
    /\ Head(snaps[t]).kind = kind
    /\ (t # running \/ SaveComplete)

\* C15 as stated: the interrupt-enable bit of the status byte in a task's
\* saved context equals the interrupt-enable state the task had at the moment
\* it was suspended, whether vPortYield or the tick interrupt suspended it.
C15_SavedIBitIsTaskIBit ==
    \A t \in Tasks :
        (SuspendedBy(t, "yield") \/ SuspendedBy(t, "tick")) =>
            Bit(SavedStatus(t), SREG_I) = Bit(Head(snaps[t]).sreg, SREG_I)

\* C15, amended: the status byte saved by vPortYield is the caller's status
\* register at the call, interrupt-enable bit included; the status byte saved
\* by the tick handler has the interrupt-enable bit clear although the
\* interrupted task had it set (the hardware clears it on entry to the
\* handler, before the save reads the register), and is otherwise the task's
\* status register.
C15_SavedIBitYieldExactTickClear ==
    \A t \in Tasks :
        /\ SuspendedBy(t, "yield") =>
              SavedStatus(t) = Head(snaps[t]).sreg
        /\ SuspendedBy(t, "tick") =>
              /\ Bit(Head(snaps[t]).sreg, SREG_I) = 1
              /\ SavedStatus(t) = ClrBit(Head(snaps[t]).sreg, SREG_I)

\* one task is suspended by vPortYield with interrupts enabled and the other
\* has just been saved by the tick handler
C15_Witness ==
    /\ pc = ADDR_vPortYieldFromTick + 4
    /\ SuspendedBy(running, "tick")
    /\ \E t \in Tasks :
          /\ t # running
          /\ SuspendedBy(t, "yield")
          /\ Bit(Head(snaps[t]).sreg, SREG_I) = 1
          /\ Bit(SavedStatus(t), SREG_I) = 1

(***************************************************************************)
(* C16: the end of portRESTORE_CONTEXT.                                    *)
(***************************************************************************)
\* the restore has just written the status register
StatusRestored ==
    /\ pc \in {ADDR_xPortStartScheduler + 3, ADDR_vPortYield + 7,
               ADDR_vPortYieldFromTick + 8}
    /\ running \in Tasks
    /\ snaps[running] # << >>

\* the status byte is the last byte popped so far, and one more pop, of r0,
\* leaves the return address of the restored task on top of the stack
StatusPoppedSecondToLast ==
    LET sn == Head(snaps[running])
        m  == RESTORE_pop_tmp(mcu)
    IN  /\ mcu.sreg = Rd(mcu, mcu.sp)
        /\ m.sp = mcu.sp + 1
        /\ sn.kind # "fresh" => m.reg[0] = sn.reg[0]
        /\ RetAddr(m, cfg.pc3) = IF sn.kind = "tick" THEN ADDR_reti ELSE sn.pc

\* C16 as stated: portRESTORE_CONTEXT pops the status byte into the status
\* register second to last and r0 last, and after that write interrupts are
\* enabled if and only if the restored task had them enabled when it was
\* suspended.
C16_RestoredIBitIsTaskIBit ==
    StatusRestored =>
        LET sn == Head(snaps[running])
        IN  /\ StatusPoppedSecondToLast
            /\ sn.kind \in {"yield", "tick"} =>
                  (IntEnabled(mcu) <=> Bit(sn.sreg, SREG_I) = 1)

\* C16, amended: portRESTORE_CONTEXT pops the status byte into the status
\* register second to last and r0 last, and after that write interrupts are
\* enabled if and only if the saved status byte has the interrupt-enable bit
\* set: always for a task that has not run yet, as the caller had them for a
\* task suspended by vPortYield, and never for a task suspended by the tick
\* interrupt, which had them enabled and gets them back from the reti of the
\* handler.
C16_RestoredIBitIsSavedIBit ==
    StatusRestored =>
        LET sn == Head(snaps[running])
        IN  /\ StatusPoppedSecondToLast
            /\ IntEnabled(mcu) <=> Bit(Rd(mcu, mcu.sp), SREG_I) = 1
            /\ sn.kind = "fresh" => IntEnabled(mcu)
            /\ sn.kind = "yield" =>
                  (IntEnabled(mcu) <=> Bit(sn.sreg, SREG_I) = 1)
            /\ sn.kind = "tick" =>
                  /\ ~ IntEnabled(mcu)
                  /\ Bit(sn.sreg, SREG_I) = 1

\* vPortYield has restored the status register of a task the tick interrupt
\* suspended
C16_Witness ==
    /\ StatusRestored
    /\ pc = ADDR_vPortYield + 7
    /\ Head(snaps[running]).kind = "tick"
    /\ ~ IntEnabled(mcu)

(***************************************************************************)
(* C17: who writes pxCurrentTCB and the stack-pointer field.               *)
(***************************************************************************)
\* the stack-pointer fields of all control blocks
SPFields(m) == [t \in Tasks |-> << Rd(m, TCBAddr(t)), Rd(m, TCBAddr(t) + 1) >>]

\* the scheduler has been handed to the port: main() is past its call of
\* xPortStartScheduler
PortRunning == pc # ADDR_main

\* C17: from the call of xPortStartScheduler on, pxCurrentTCB changes only in
\* the kernel's vTaskSwitchContext, called after a completed save and before
\* the restore that follows it, and never in a step of the port; the
\* stack-pointer field of a control block changes only in the step that ends
\* portSAVE_CONTEXT, which stores the stack pointer in the control block
\* pxCurrentTCB designates, that of the task being suspended, and leaves the
\* other control blocks alone; portRESTORE_CONTEXT takes the stack pointer
\* from the field of the control block pxCurrentTCB designates and writes no
\* field.
C17_OnlySaveWritesOnlyKernelSwitches ==
    [][PortRunning =>
          /\ pxCurrentTCB' # pxCurrentTCB =>
                /\ pc \in {ADDR_vPortYield + 4, ADDR_vPortYieldFromTick + 5}
                /\ Kinds(hlog) \in {<< "SAVE" >>, << "SAVE", "TICK" >>}
                /\ Kinds(hlog') = Append(Kinds(hlog), "SWITCH")
          /\ pc \in {ADDR_vPortYield + 3, ADDR_vPortYieldFromTick + 3} =>
                /\ pxCurrentTCB = TCBAddr(running)
                /\ SPFields(mcu') =
                      [SPFields(mcu) EXCEPT ![running] =
                                               << Lo(mcu'.sp), Hi(mcu'.sp) >>]
                /\ pxCurrentTCB' = pxCurrentTCB
          /\ pc \notin {ADDR_vPortYield + 3, ADDR_vPortYieldFromTick + 3} =>
                SPFields(mcu') = SPFields(mcu)
          /\ pc \in {ADDR_xPortStartScheduler + 1, ADDR_vPortYield + 5,
                     ADDR_vPortYieldFromTick + 6} =>
                /\ mcu'.sp = SavedSP(TaskOf(pxCurrentTCB))
                                + 32 + (IF cfg.pc3 THEN 2 ELSE 0)
                /\ pxCurrentTCB' = pxCurrentTCB]_vars

\* vPortYield has saved one task, the kernel has chosen the other, and the
\* field of the first holds its stack pointer
C17_Witness ==
    /\ pc = ADDR_vPortYield + 5
    /\ pxCurrentTCB # TCBAddr(running)
    /\ SavedSP(running) = mcu.sp
    /\ SavedSP(TaskOf(pxCurrentTCB)) # mcu.sp

(***************************************************************************)
(* C18: what pxPortInitialiseStack writes.                                 *)
(***************************************************************************)
\* bytes of the initial frame for a program counter of 2 and of 3 bytes
FrameBytes(pc3) == IF pc3 THEN 41 ELSE 38

\* C18: in the step that creates task t, pxPortInitialiseStack returns the
\* stack top less 38 (2-byte program counter) or 41 (3-byte), the only bytes
\* of memory that change lie from the stack top down to one above the address
\* returned (the kernel's store of that address in the control block aside),
\* the first three are 0x11, 0x22, 0x33, no byte at or below the address
\* returned changes, and pxCurrentTCB, portTickRateHz, ticksRemainingInSec,
\* the registers and the tick source are left as they were.
C18_InitialiseStackWritesOnlyItsFrame ==
    [][\A t \in Tasks :
          (~ task[t].created /\ task'[t].created) =>
             LET top == StackTop(t)
                 ret == pxPortInitialiseStack(top, task[t].pxCode,
                                              task[t].pvParameters, cfg.pc3)
             IN  /\ top - ret = FrameBytes(cfg.pc3)
                 /\ \A a \in RAM :
                       mcu'.mem[a] # mcu.mem[a] =>
                          \/ a \in (ret + 1) .. top
                          \/ a \in {TCBAddr(t), TCBAddr(t) + 1}
                 /\ \A a \in StackOf(t) : a <= ret => mcu'.mem[a] = mcu.mem[a]
                 /\ mcu'.mem[ret + 1] # 0
                 /\ << mcu'.mem[top], mcu'.mem[top - 1], mcu'.mem[top - 2] >>
                       = << 17, 34, 51 >>
                 /\ Word(mcu'.mem[TCBAddr(t)], mcu'.mem[TCBAddr(t) + 1]) = ret
                 /\ UNCHANGED << pxCurrentTCB, portTickRateHz,
                                 ticksRemainingInSec, io, xTickCount >>
                 /\ << mcu'.reg, mcu'.sreg, mcu'.sp, mcu'.rampz, mcu'.eind >>
                       = << mcu.reg, mcu.sreg, mcu.sp, mcu.rampz, mcu.eind >>
      ]_vars

\* task 0 has been created in a build with a 3-byte program counter: its frame
\* of 41 bytes starts with the markers and the byte below it is untouched
C18_Witness ==
    /\ pc = ADDR_main
    /\ cfg.pc3
    /\ task[0].created
    /\ ~ task[1].created
    /\ SavedSP(0) = StackTop(0) - 41
    /\ Rd(mcu, StackTop(0)) = 17
    /\ Rd(mcu, SavedSP(0) + 1) = 49
    /\ Rd(mcu, SavedSP(0)) = 0

(***************************************************************************)
(* C19: ticksRemainingInSec.                                               *)
(***************************************************************************)
\* C19 as stated: every tick decrements ticksRemainingInSec by one, a count
\* that reaches zero is reset to portTickRateHz, and so between ticks it is
\* always in 1 .. portTickRateHz.
C19_TicksRemainingCountsDown ==
    /\ [](portTickRateHz # 0 => ticksRemainingInSec \in 1 .. portTickRateHz)
    /\ [][xTickCount' = xTickCount + 1 =>
             ticksRemainingInSec' = IF ticksRemainingInSec = 1
                                    THEN portTickRateHz
                                    ELSE ticksRemainingInSec - 1]_vars

(***************************************************************************)
(* C20: the watchdog as tick source.                                       *)
(***************************************************************************)
\* the watchdog build has run prvSetupTimerInterrupt
WatchdogSetUp ==
    /\ cfg.wdt
    /\ pc = ADDR_xPortStartScheduler + 1

\* C20: in a watchdog build, once prvSetupTimerInterrupt has run the watchdog
\* control register has WDIE set, WDE clear and the prescale bits WDP3 and
\* WDP2..WDP0 equal to bits 3 and 2..0 of portUSE_WDTO, and it stays so after
\* any number of expiries: each expiry raises the tick interrupt and the
\* processor is never reset.
C20_WatchdogInterruptsNeverResets ==
    cfg.wdt =>
        /\ pc # ADDR_reset
        /\ WatchdogSetUp =>
              /\ Bit(io.WDTCSR, WDIE) = 1
              /\ Bit(io.WDTCSR, WDE) = 0
              /\ Bit(io.WDTCSR, WDP3) = Bit(cfg.portUSE_WDTO, 3)
              /\ io.WDTCSR % 8 = cfg.portUSE_WDTO % 8
              /\ TickEnabled(io, cfg)

\* the watchdog, set up for the longest time-out, has expired as often as the
\* model lets it and still raises the tick interrupt
C20_Witness ==
    /\ WatchdogSetUp
    /\ cfg.portUSE_WDTO = 9
    /\ nTicks = MaxEvents
    /\ io.WDTCSR = 2 ^ WDIE + 2 ^ WDP3 + 1

(***************************************************************************)
(* C21: the tick handler.                                                  *)
(***************************************************************************)
\* the handler of the tick interrupt taken last has not called
\* xTaskIncrementTick yet
TickCallPending ==
    pc \in {ADDR_ISR} \cup
           (ADDR_vPortYieldFromTick .. ADDR_vPortYieldFromTick + 4)

\* every tick interrupt taken has called xTaskIncrementTick exactly once, the
\* handler now before its call aside
OneCallPerTick ==
    xTickCount = nTicks - (IF TickCallPending THEN 1 ELSE 0)

\* in the preemptive build the call comes after a completed save and before
\* the restore
CallBetweenSaveAndRestore ==
    (xTickCount' # xTickCount /\ cfg.preempt) =>
        /\ pc = ADDR_vPortYieldFromTick + 4
        /\ Kinds(hlog) = << "SAVE" >>
        /\ hlog[1][2] = TCBAddr(running)
        /\ Kinds(hlog') = << "SAVE", "TICK" >>

\* the reti of the handler resumes the task pxCurrentTCB designates where the
\* tick interrupt suspended it, with interrupts enabled
RetiIntoRestoredTask ==
    pc = ADDR_reti =>
        /\ pxCurrentTCB # 0 => running = TaskOf(pxCurrentTCB)
        /\ resumed'.kind = "tick"
        /\ resumed'.task = running
        /\ pc' = resumed'.pc
        /\ IntEnabled(mcu')

\* the step is the ret that ends vPortYieldFromTick (and not a further tick
\* interrupt taken in its place)
HandlerRet ==
    /\ pc = ADDR_vPortYieldFromTick + 9
    /\ pc' # ADDR_ISR

\* C21 as stated: each tick interrupt taken calls xTaskIncrementTick exactly
\* once in both builds; in the preemptive build after portSAVE_CONTEXT has
\* completed and before portRESTORE_CONTEXT starts; and the handler ends with
\* a return from interrupt into the restored task: the ret of
\* vPortYieldFromTick returns to the reti of the handler.
C21_HandlerEndsWithReti ==
    /\ []OneCallPerTick
    /\ [][/\ CallBetweenSaveAndRestore
          /\ RetiIntoRestoredTask
          /\ HandlerRet => pc' = ADDR_reti]_vars

\* C21, amended: each tick interrupt taken calls xTaskIncrementTick exactly
\* once in both builds; in the preemptive build after portSAVE_CONTEXT has
\* completed and before portRESTORE_CONTEXT starts; the handler then returns
\* into the restored task: by the ret of vPortYieldFromTick and the reti of
\* the handler when the tick interrupt had suspended that task (always so in
\* the cooperative build, which restores nothing), and by the ret of
\* vPortYieldFromTick alone, straight to the address the task is to continue
\* at, when vPortYield had suspended it or it has not run yet: the reti of
\* this handler is executed only when the interrupted task is restored.
C21_HandlerReturnsIntoRestoredTask ==
    /\ []OneCallPerTick
    /\ [][/\ CallBetweenSaveAndRestore
          /\ RetiIntoRestoredTask
          /\ HandlerRet =>
                LET sn == Head(snaps[running])
                IN  /\ running = TaskOf(pxCurrentTCB)
                    /\ sn.kind \in {"tick", "yield", "fresh"}
                    /\ sn.kind = "tick" => pc' = ADDR_reti /\ resumed' = NoSnap
                    /\ sn.kind # "tick" => pc' = sn.pc /\ resumed' = sn]_vars

\* a tick handler has saved the interrupted task, called xTaskIncrementTick
\* once, switched to a task vPortYield had suspended and returned into it
\* without executing a reti
C21_Witness ==
    /\ resumed.kind = "yield"
    /\ pc = resumed.pc
    /\ Kinds(hlog) = << "SAVE", "TICK", "SWITCH", "RESTORE" >>
    /\ nTicks = 1
    /\ xTickCount = 1
    /\ \E t \in Tasks : t # running /\ SuspendedBy(t, "tick")

(***************************************************************************)
(* C22: no tick interrupt between cli and the write of the status register.*)
(***************************************************************************)
\* bytes of one saved context: r0, the status byte, r1..r31 and, with a
\* 3-byte program counter, the two extended registers
ContextBytes == 33 + (IF cfg.pc3 THEN 2 ELSE 0)

\* the stack pointer of task t: the processor's when t runs, else the saved one
SPOf(t) == IF t = running THEN mcu.sp ELSE SavedSP(t)

\* the stack pointer at the outermost suspension of task t; for a task that
\* has not run yet, the one its first ret finds
BaseSP(t) ==
    LET sn == snaps[t][Len(snaps[t])]
    IN  IF sn.kind = "fresh"
        THEN StackTop(t) - 3 - PCBytes(cfg.pc3)
        ELSE sn.sp

\* below the point of its outermost suspension the stack of task t has no
\* room taken by a second copy of r2..r31
NoDoubleSave ==
    \A t \in Tasks :
        snaps[t] # << >> =>
            /\ SPOf(t) <= BaseSP(t)
            /\ BaseSP(t) - SPOf(t) < ContextBytes + 30

\* C22: the kernel functions leaving the interrupt flag alone, interrupts are
\* disabled at every instruction from the cli of a portSAVE_CONTEXT to the
\* status-register write of the portRESTORE_CONTEXT after it and no tick
\* interrupt is taken there, and no task's stack ever holds r2..r31 pushed by
\* two overlapping saves.
C22_NoTickInsideSaveRestore ==
    /\ [](pc \in ProtectedPCs => ~ IntEnabled(mcu))
    /\ []NoDoubleSave
    /\ [][(pc \in ProtectedPCs) => pc' # ADDR_ISR]_vars

\* in a preemptive build the tick interrupt is taken at the first instruction
\* after the window, the one that follows the pop of r0 in vPortYield
C22_Witness ==
    /\ pc = ADDR_ISR
    /\ cfg.preempt
    /\ Head(snaps[running]).kind = "tick"
    /\ Head(snaps[running]).pc = ADDR_vPortYield + 8
    /\ Kinds(hlog) = << "SAVE", "SWITCH", "RESTORE" >>
    /\ NoDoubleSave

(***************************************************************************)
(* C23: r1, the compiler's zero register.                                  *)
(***************************************************************************)
\* the next instruction is the call of vTaskSwitchContext or of
\* xTaskIncrementTick in vPortYield or vPortYieldFromTick
AtKernelCall ==
    pc \in {ADDR_vPortYield + 4, ADDR_vPortYieldFromTick + 4,
            ADDR_vPortYieldFromTick + 5}

\* C23: r1 is zero whenever vPortYield or vPortYieldFromTick calls
\* vTaskSwitchContext or xTaskIncrementTick, whatever the suspended task held
\* in r1 (its value is in the saved context), and a task that is resumed finds
\* in r1 the value it held when it was suspended.
C23_ZeroRegClearedAndRestored ==
    /\ AtKernelCall =>
          /\ mcu.reg[1] = 0
          /\ LET sn == Head(snaps[running])
             IN  sn.kind \in {"yield", "tick"} =>
                    Rd(mcu, SavedSP(running) + 31) = sn.reg[1]
    /\ resumed.kind \in {"yield", "tick"} => mcu.reg[1] = resumed.reg[1]

\* a task the tick interrupt suspended with 74 in r1 has been resumed by the
\* handler, which called both kernel functions, and holds 74 in r1 again
C23_Witness ==
    /\ resumed.kind = "tick"
    /\ resumed.reg[1] = 74
    /\ mcu.reg[1] = 74
    /\ Kinds(hlog) = << "SAVE", "TICK", "SWITCH", "RESTORE" >>

(***************************************************************************)
(* C24: the 3-byte program counter variant.                                *)
(***************************************************************************)
\* entry points above the first 64K words, which a 16-bit address cannot hold
FarEntryPoints == {65536 + 336, 131071}

\* task t has been created and has not run yet: its initial frame is intact
NotStartedYet(t) ==
    /\ task[t].created
    /\ snaps[t] = << FreshSnap(t, task[t]) >>
    /\ t # running

\* C24: with a 3-byte program counter the initial frame holds the entry point
\* as low byte, high byte and a zero top byte (for any entry point, those of
\* the entry address truncated to 16 bits) and zero for both extended
\* registers, so that a task starts at its 16-bit entry address with both
\* registers zero; and a task resumed after vPortYield finds in the register
\* at 0x3B (RAMPZ) and in the register at 0x3C (EIND) the value each had at the
\* call, the saved context holding RAMPZ above EIND.
C24_ThreeBytePCAndExtendedRegisters ==
    cfg.pc3 =>
        /\ \A t \in Tasks :
              NotStartedYet(t) =>
                 LET top == StackTop(t)
                 IN  /\ << Rd(mcu, top - 3), Rd(mcu, top - 4), Rd(mcu, top - 5) >>
                           = << Lo(task[t].pxCode), Hi(task[t].pxCode), 0 >>
                     /\ << Rd(mcu, top - 8), Rd(mcu, top - 9) >> = << 0, 0 >>
                     /\ SavedSP(t) = top - 41
        /\ \A e \in WideEntryPoints \cup FarEntryPoints :
              LET f == InitialFrame(e, 0, TRUE)
              IN  /\ << f[4], f[5], f[6] >> = << Lo(e % 65536), Hi(e % 65536), 0 >>
                  /\ << f[9], f[10] >> = << 0, 0 >>
        /\ resumed.kind = "fresh" =>
              /\ pc = task[running].pxCode % 65536
              /\ mcu.rampz = 0
              /\ mcu.eind = 0
        /\ (pc = ADDR_vPortYield + 4 /\ SuspendedBy(running, "yield")) =>
              /\ Rd(mcu, SavedSP(running) + 33) = Head(snaps[running]).rampz
              /\ Rd(mcu, SavedSP(running) + 32) = Head(snaps[running]).eind
        /\ resumed.kind = "yield" =>
              /\ mcu.rampz = resumed.rampz
              /\ mcu.eind = resumed.eind

\* in a build with a 3-byte program counter a task that called vPortYield
\* with different values in the two extended registers has been resumed
C24_Witness ==
    /\ cfg.pc3
    /\ resumed.kind = "yield"
    /\ resumed.rampz = 0
    /\ resumed.eind = 255
    /\ mcu.rampz = 0
    /\ mcu.eind = 255

(***************************************************************************)
(* C25: no tick while the scheduler is being started.                      *)
(***************************************************************************)
\* from the start of prvSetupTimerInterrupt to the instruction that writes the
\* first task's status byte to the status register
StartingPCs == ADDR_xPortStartScheduler .. ADDR_xPortStartScheduler + 2

\* C25: xPortStartScheduler being called with interrupts disabled, interrupts
\* stay disabled and no tick interrupt is taken from the start of
\* prvSetupTimerInterrupt until portRESTORE_CONTEXT has written the first
\* task's status byte to the status register, with Timer0 and with the
\* watchdog; a tick interrupt is only ever taken with the tick source set up
\* and a task's context restored.
C25_NoTickWhileStarting ==
    /\ [](pc \in StartingPCs =>
             /\ ~ IntEnabled(mcu)
             /\ nTicks = 0
             /\ xTickCount = 0)
    /\ [](pc = ADDR_ISR =>
             /\ TickEnabled(io, cfg)
             /\ portTickRateHz = SetupTickRate(cfg)
             /\ running \in Tasks
             /\ running = TaskOf(pxCurrentTCB))
    /\ [][(pc \in StartingPCs) => pc' # ADDR_ISR]_vars

\* in a watchdog build the first tick interrupt is taken at the ret of
\* xPortStartScheduler, the earliest instruction at which one can be
C25_Witness ==
    /\ pc = ADDR_ISR
    /\ cfg.wdt
    /\ nTicks = 1
    /\ Head(snaps[running]).pc = ADDR_xPortStartScheduler + 4
    /\ Kinds(hlog) = << "SETUP", "RESTORE" >>

(***************************************************************************)
(* C26: a tick interrupt taken in vPortYield before its cli.               *)
(***************************************************************************)
\* the task has just been resumed inside vPortYield, at the instruction a
\* tick interrupt was taken at: after "push r0" or after "in r0, SREG"
ResumedBeforeCli ==
    /\ resumed.kind = "tick"
    /\ resumed.pc \in {ADDR_vPortYield + 1, ADDR_vPortYield + 2}
    /\ pc = resumed.pc

\* registers r1..r31 of task t's saved context, as a function of the register
SavedRegs(t) == [i \in 1 .. 31 |-> Rd(mcu, SavedSP(t) + 32 - i)]

\* C26: a task resumed inside vPortYield where a tick interrupt was taken
\* before the cli has the registers, flags and stack it was interrupted with:
\* the r0 it pushed is on its stack, its flags are those it called vPortYield
\* with and, after "in r0, SREG", r0 holds them; and the context every call of
\* vPortYield stores, and the state the caller is resumed with, are the
\* registers and flags the caller had at the call.
C26_TickBeforeCliIsTransparent ==
    /\ ResumedBeforeCli =>
          LET sn == Head(snaps[running])
          IN  /\ sn.kind = "yield"
              /\ Context(mcu) = << resumed.reg, resumed.sreg, resumed.rampz,
                                   resumed.eind >>
              /\ mcu.sp = resumed.sp
              /\ StackSeq(mcu, running) = resumed.stack
              /\ mcu.sp = sn.sp - PCBytes(cfg.pc3) - 1
              /\ Rd(mcu, mcu.sp + 1) = sn.reg[0]
              /\ mcu.sreg = sn.sreg
              /\ IntEnabled(mcu)
              /\ pc = ADDR_vPortYield + 2 => mcu.reg[0] = sn.sreg
              /\ pc = ADDR_vPortYield + 1 => mcu.reg[0] = sn.reg[0]
    /\ (pc = ADDR_vPortYield + 4 /\ SuspendedBy(running, "yield")) =>
          LET sn == Head(snaps[running])
          IN  /\ SavedStatus(running) = sn.sreg
              /\ Rd(mcu, SavedSP(running) + ContextBytes) = sn.reg[0]
              /\ SavedRegs(running) = [i \in 1 .. 31 |-> sn.reg[i]]
              /\ SavedSP(running) + ContextBytes + PCBytes(cfg.pc3) = sn.sp
    /\ resumed.kind = "yield" =>
          /\ Context(mcu) = << resumed.reg, resumed.sreg, resumed.rampz,
                               resumed.eind >>
          /\ mcu.sp = resumed.sp
          /\ pc = resumed.pc

\* a task interrupted in vPortYield after "in r0, SREG" is back at the cli,
\* the handler having switched to the other task and a later handler back
C26_Witness ==
    /\ ResumedBeforeCli
    /\ pc = ADDR_vPortYield + 2
    /\ mcu.reg[0] = Head(snaps[running]).sreg
    /\ IntEnabled(mcu)
    /\ Kinds(hlog) = << "SAVE", "TICK", "SWITCH", "RESTORE" >>
    /\ hlog[1][2] # hlog[4][2]

(***************************************************************************)
(* C27: what the macros write.                                             *)
(***************************************************************************)
\* the instructions of portRESTORE_CONTEXT
RestorePCs ==
    (ADDR_xPortStartScheduler + 1 .. ADDR_xPortStartScheduler + 3)
        \cup (ADDR_vPortYield + 5 .. ADDR_vPortYield + 7)
        \cup (ADDR_vPortYieldFromTick + 6 .. ADDR_vPortYieldFromTick + 8)

\* the memory of task t: its stack and the stack-pointer field
MemoryOf(t) == StackOf(t) \cup {TCBAddr(t), TCBAddr(t) + 1}

\* the bytes of task t's saved context
SavedContext(t) ==
    [i \in 1 .. ContextBytes |-> Rd(mcu, SavedSP(t) + i)]

\* the saved context of a suspended task that is not running is the one its
\* suspension stored: r1..r31 and r0 as the task had them
SuspendedContextIntact ==
    \A t \in Tasks :
        (t # running /\ (SuspendedBy(t, "yield") \/ SuspendedBy(t, "tick"))) =>
            LET sn == Head(snaps[t])
            IN  /\ SavedRegs(t) = [i \in 1 .. 31 |-> sn.reg[i]]
                /\ Rd(mcu, SavedSP(t) + ContextBytes) = sn.reg[0]
                /\ SavedStatus(t) % 128 = sn.sreg % 128

\* C27: from the call of xPortStartScheduler on, every byte of memory a step
\* changes belongs to the stack or the control block of the running task, so
\* that nothing done for other tasks touches the saved context or the
\* stack-pointer field of a suspended task; the instructions of
\* portRESTORE_CONTEXT change no memory; and between the save of the running
\* task and the restore, the kernel calls leave the context just saved and
\* its stack-pointer field as they are.
C27_SuspendedContextUntouched ==
    /\ []SuspendedContextIntact
    /\ [][PortRunning =>
             /\ \A a \in RAM :
                   mcu'.mem[a] # mcu.mem[a] =>
                      /\ running \in Tasks
                      /\ a \in MemoryOf(running)
             /\ pc \in RestorePCs => mcu'.mem = mcu.mem
             /\ \A t \in Tasks :
                   (SaveComplete /\ t = running) =>
                      /\ SavedSP(t)' = SavedSP(t)
                      /\ SavedContext(t)' = SavedContext(t)]_vars

\* while one task is suspended by vPortYield the other has been saved by the
\* tick handler, and the context of the first is as its call left it
C27_Witness ==
    /\ pc = ADDR_vPortYieldFromTick + 5
    /\ \E t \in Tasks :
          /\ t # running
          /\ SuspendedBy(t, "yield")
          /\ SavedRegs(t) = [i \in 1 .. 31 |-> Head(snaps[t]).reg[i]]
          /\ SavedSP(t) # SavedSP(running)
    /\ SuspendedContextIntact

(***************************************************************************)
(* C28: stack use is balanced.                                             *)
(***************************************************************************)
\* bytes in use on the stack of the running task
StackDepth == StackTop(running) - mcu.sp

\* C28: each time a task is back in its code after vPortYield or the tick
\* interrupt suspended it, its stack pointer is the one it had immediately
\* before that call or interrupt and its stack is as deep as it was then; when
\* the task is in its own code the stack holds the three marker bytes and at
\* most one byte per instruction the task executed, so no context byte or
\* return address is left on it; a task started for the first time has only
\* the three marker bytes on its stack.
C28_StackBalanced ==
    /\ resumed.kind \in {"yield", "tick"} =>
          /\ mcu.sp = resumed.sp
          /\ StackDepth = Len(resumed.stack)
          /\ InTask => StackDepth <= 3 + nOps
    /\ resumed.kind = "fresh" => StackDepth = 3

\* after a tick interrupt and a call of vPortYield a task that pushed nothing
\* itself is resumed from its call with the three marker bytes on its stack
C28_Witness ==
    /\ resumed.kind = "yield"
    /\ nTicks >= 1
    /\ nYields >= 1
    /\ mcu.sp = resumed.sp
    /\ StackDepth = 3

=============================================================================
